---- MODULE Spec2Model ----
(***************************************************************************)
(* The mirror fan-out job (MirrorFileJob) of MULTUP: handle, pAll,         *)
(* processMirror, updateFileStatus and rescue, over the files, mirrors and *)
(* file_mirrors tables.                                                    *)
(*                                                                         *)
(* One step of the model is the code between two awaits that touches the   *)
(* database.  A model instance read from the database (Lucid) is a local   *)
(* copy: save() writes only the attributes whose merged value differs from *)
(* that copy, and writes nothing when none differs.                        *)
(***************************************************************************)
EXTENDS Integers, Sequences, FiniteSets, Bags, TLC

VARIABLES
    files,      \* files table: file id -> [status, size]
    mirrors,    \* mirrors table: sequence of [name, enabled, priority, maxFileSize]
    rows,       \* file_mirrors table: sequence of rows, the row id is the index
    runs,       \* queue worker slot -> the state of the handle / rescue call in it
    tasks,      \* slot -> sequence (one per target) of processMirror calls
    delivered,  \* number of job deliveries so far
    objects,    \* the bucket: storage key -> stored object (head and metadata)
    credentials,\* presigned URLs issued: sequence of [key, metadata, ...]
    queue,      \* fan-out jobs dispatched by the uploads controller
    request,    \* the HTTP request a controller is serving
    page        \* the download page open in a browser

\* What the job leaves alone, and what the uploads controller leaves alone.
gateVars == <<objects, credentials, queue, request, page>>
jobVars == <<mirrors, rows, runs, tasks, delivered, page>>

vars == <<files, mirrors, rows, runs, tasks, delivered,
          objects, credentials, queue, request, page>>

-----------------------------------------------------------------------------
(* Program constants. *)

MAX_RETRIES == 3
RETRY_BASE_DELAY_MS == 1000
CONCURRENCY_LIMIT == 5

(* Bounds of the model. *)

MaxRuns == 2        \* job deliveries explored
FileSize == 2       \* byte size of every file (mirror caps are relative to it)
FanMirrors == 7     \* rows of the mirrors table in SpecFan

NULL == "NULL"
NoMirror == 0       \* payload.mirror absent
NoCap == -1         \* config.maxFileSize absent or not a number

-----------------------------------------------------------------------------
(* Values. *)

NullMeta == [isNull |-> TRUE, error |-> NULL, rest |-> NULL]

\* interface MirrorUploadResult: what the worker's JSON body can hold.
WorkerResults ==
    { [success |-> TRUE,  downloadUrl |-> "https://x/y", error |-> NULL,
       metadata |-> "provider", expiresAt |-> NULL],
      [success |-> TRUE,  downloadUrl |-> NULL, error |-> NULL,
       metadata |-> NULL, expiresAt |-> NULL],
      [success |-> FALSE, downloadUrl |-> NULL, error |-> "upload rejected",
       metadata |-> NULL, expiresAt |-> NULL] }

\* callWorker throws: non-2xx response, or the 30 s abort.
HttpError == "Worker returned 500"
TimeoutError == "Request timed out after 30000ms"
WorkerErrors == {HttpError, TimeoutError}

NewRun ==
    [pc |-> "new", fileId |-> 0, mirror |-> NoMirror, fileRead |-> NULL,
     size |-> 0, executing |-> <<>>, index |-> 0, newStatus |-> NULL,
     recomputes |-> 0, found |-> NULL]

NoRow ==
    [fileId |-> 0, mirror |-> 0, status |-> NULL, url |-> NULL,
     metadata |-> NullMeta, attempts |-> 0, expiresAt |-> NULL]

IdleTask(service) ==
    [pc |-> "idle", service |-> service, fmId |-> 0, fm |-> NoRow,
     existing |-> NULL, attempt |-> 0, lastError |-> NULL, calls |-> 0,
     slept |-> <<>>]

\* A storage key as isValidS3Key reads it: a string or not, its prefix,
\* whether it holds "..", and the upload id and extension behind the prefix.
Key(prefix, dotdot, id, ext) ==
    [isString |-> TRUE, prefix |-> prefix, dotdot |-> dotdot,
     id |-> id, ext |-> ext]

NoKey == [isString |-> FALSE, prefix |-> "", dotdot |-> FALSE, id |-> 0, ext |-> ""]

\* No object: what HeadObject gives for a missing key.
NoMetadata ==
    [filename |-> NULL, declaredSize |-> NULL, declaredMimetype |-> NULL,
     uploadId |-> NULL, fingerprint |-> NULL]

NoObject == [Metadata |-> NoMetadata, ContentLength |-> 0, ContentType |-> NULL]

\* No HTTP request is being served.
NoRequest ==
    [pc |-> "none", op |-> "none", key |-> NoKey, head |-> NoObject,
     status |-> 0, error |-> NULL, deleteIssued |-> FALSE, fileId |-> 0,
     dispatched |-> FALSE, served |-> 0, filesBefore |-> 0, queueBefore |-> 0]

\* No download page is open.
NoPage ==
    [mounted |-> FALSE, fileId |-> 0, fileStatus |-> NULL, mirrors |-> <<>>,
     interval |-> FALSE, requestRef |-> 0, fetches |-> {}, sent |-> 0,
     cleanups |-> 0, stale |-> 0]

RunIds == DOMAIN runs
TaskIds(r) == DOMAIN tasks[r]

Settled(t) == t.pc = "finished"
Started(t) == t.pc # "idle"
InFlight(t) == Started(t) /\ ~Settled(t)

\* The call in slot r is over (or none was made) and left nothing in flight:
\* the queue worker can take the next delivery there.
SlotFree(r) ==
    /\ runs[r].pc \in {"new", "done", "thrown", "rescued"}
    /\ \A i \in TaskIds(r) : Settled(tasks[r][i])

-----------------------------------------------------------------------------
(* Lucid: model.merge(patch).save().  `copy` is the instance's attributes  *)
(* as last read or saved; only the dirty attributes reach the row.         *)

Dirty(copy, patch) == {a \in DOMAIN patch : patch[a] # copy[a]}

Merge(copy, patch) ==
    [a \in DOMAIN copy |-> IF a \in DOMAIN patch THEN patch[a] ELSE copy[a]]

Save(table, id, copy, patch) ==
    [table EXCEPT ![id] =
        [a \in DOMAIN @ |-> IF a \in Dirty(copy, patch) THEN patch[a] ELSE @[a]]]

-----------------------------------------------------------------------------
(* Queries. *)

\* Mirror.query().where('enabled', true).orderBy('priority', 'asc').select('name')
getMirrorsList ==
    LET enabled == SelectSeq(mirrors, LAMBDA m : m.enabled)
        sorted == SortSeq(enabled, LAMBDA a, b : a.priority < b.priority)
    IN  [i \in 1..Len(sorted) |-> sorted[i].name]

\* getMirrorConfig(service).maxFileSize: the cap of the enabled mirror of that
\* name when it is a number, else 0.
getMirrorConfig(service) ==
    LET found == {i \in 1..Len(mirrors) :
                    mirrors[i].name = service /\ mirrors[i].enabled}
    IN  IF found = {} THEN 0
        ELSE LET m == mirrors[CHOOSE i \in found : TRUE]
             IN  IF m.maxFileSize = NoCap THEN 0 ELSE m.maxFileSize

\* FileMirror.query().where('file_id', f).where('mirror', service): the ids.
RowsOf(f, service) ==
    {i \in 1..Len(rows) : rows[i].fileId = f /\ rows[i].mirror = service}

\* FileMirror.query().where('file_id', f): the ids.
FileRows(f) == {i \in 1..Len(rows) : rows[i].fileId = f}

-----------------------------------------------------------------------------
(* pAll(tasks, concurrency): the for loop from task i on, with `exec` the   *)
(* executing list, run until it awaits Promise.race or leaves the loop to   *)
(* await Promise.all.  index is the last task started.                     *)

pAllLoopStopsAtLimit(exec, i, n) ==
    LET last == IF n < CONCURRENCY_LIMIT THEN n ELSE CONCURRENCY_LIMIT
    IN  [executing |-> [k \in 1..last |-> k], index |-> last, pc |-> "all"]

RECURSIVE pAllLoop(_, _, _)
pAllLoop(exec, i, n) ==
    IF i > n THEN [executing |-> exec, index |-> n, pc |-> "all"]
    ELSE LET pushed == Append(exec, i)
         IN  IF Len(pushed) >= CONCURRENCY_LIMIT
             THEN [executing |-> pushed, index |-> i, pc |-> "race"]
             ELSE pAllLoop(pushed, i + 1, n)

\* executing.splice(executing.findIndex((x) => x === p), 1)
Splice(exec, p) ==
    LET at == CHOOSE k \in 1..Len(exec) :
                exec[k] = p /\ \A j \in 1..(k - 1) : exec[j] # p
    IN  [k \in 1..(Len(exec) - 1) |-> IF k < at THEN exec[k] ELSE exec[k + 1]]

\* task() runs processMirror up to its first await: the lookup is issued.
StartTasks(ts, from, to) ==
    [i \in DOMAIN ts |->
        IF i >= from /\ i <= to THEN [ts[i] EXCEPT !.pc = "lookup"] ELSE ts[i]]

-----------------------------------------------------------------------------
(* handle(payload) *)

HandleFindNextReturnsOnMissing(r, fileId, mirror) ==
    /\ SlotFree(r)
    /\ \A q \in RunIds : q < r => ~SlotFree(q)
    /\ delivered' = delivered + 1
    /\ tasks' = [tasks EXCEPT ![r] = <<>>]
    /\ IF fileId \in DOMAIN files
       THEN runs' = [runs EXCEPT ![r] =
                [NewRun EXCEPT !.pc = "setProcessing", !.fileId = fileId,
                               !.mirror = mirror,
                               !.fileRead = files[fileId].status,
                               !.found = files[fileId].status,
                               !.size = files[fileId].size]]
       ELSE runs' = [runs EXCEPT ![r] =
                [NewRun EXCEPT !.pc = "done", !.fileId = fileId,
                               !.mirror = mirror]]
    /\ UNCHANGED <<files, mirrors, rows, gateVars>>

\* A delivery is taken by a free slot.  File.find(fileId); a missing file
\* throws to the job runner.  (found is kept for the properties: the status
\* the file had when handle read it, until the recomputation begins.)
HandleFindNext(r, fileId, mirror) ==
    /\ SlotFree(r)
    /\ \A q \in RunIds : q < r => ~SlotFree(q)
    /\ delivered' = delivered + 1
    /\ tasks' = [tasks EXCEPT ![r] = <<>>]
    /\ IF fileId \in DOMAIN files
       THEN runs' = [runs EXCEPT ![r] =
                [NewRun EXCEPT !.pc = "setProcessing", !.fileId = fileId,
                               !.mirror = mirror,
                               !.fileRead = files[fileId].status,
                               !.found = files[fileId].status,
                               !.size = files[fileId].size]]
       ELSE runs' = [runs EXCEPT ![r] =
                [NewRun EXCEPT !.pc = "thrown", !.fileId = fileId,
                               !.mirror = mirror]]
    /\ UNCHANGED <<files, mirrors, rows, gateVars>>

MirrorsToProcessAll(mirror) == getMirrorsList

\* mirror ? [mirror] : await this.getMirrorsList()
MirrorsToProcess(mirror) ==
    IF mirror # NoMirror THEN <<mirror>> ELSE getMirrorsList

HandleSetProcessingKeepsSettled(r) ==
    /\ runs[r].pc = "setProcessing"
    /\ LET run == runs[r]
           mirrorsToProcess == MirrorsToProcess(run.mirror)
           n == Len(mirrorsToProcess)
           loop == pAllLoop(<<>>, 1, n)
           idle == [i \in 1..n |-> IdleTask(mirrorsToProcess[i])]
       IN  /\ files' = IF run.fileRead \in {"completed", "failed"} THEN files
                       ELSE Save(files, run.fileId, [status |-> run.fileRead],
                                 [status |-> "processing"])
           /\ tasks' = [tasks EXCEPT ![r] = StartTasks(idle, 1, loop.index)]
           /\ runs' = [runs EXCEPT ![r] =
                  [@ EXCEPT !.pc = loop.pc, !.executing = loop.executing,
                            !.index = loop.index, !.fileRead = "processing"]]
    /\ UNCHANGED <<mirrors, rows, delivered, gateVars>>

\* file.merge({ status: 'processing' }).save(); the target list; pAll up to
\* its first await.
HandleSetProcessing(r) ==
    /\ runs[r].pc = "setProcessing"
    /\ LET run == runs[r]
           mirrorsToProcess == MirrorsToProcess(run.mirror)
           n == Len(mirrorsToProcess)
           loop == pAllLoop(<<>>, 1, n)
           idle == [i \in 1..n |-> IdleTask(mirrorsToProcess[i])]
       IN  /\ files' = Save(files, run.fileId, [status |-> run.fileRead],
                            [status |-> "processing"])
           /\ tasks' = [tasks EXCEPT ![r] = StartTasks(idle, 1, loop.index)]
           /\ runs' = [runs EXCEPT ![r] =
                  [@ EXCEPT !.pc = loop.pc, !.executing = loop.executing,
                            !.index = loop.index, !.fileRead = "processing"]]
    /\ UNCHANGED <<mirrors, rows, delivered, gateVars>>

\* await Promise.race(executing) resolves: some promise of the list settled.
\* The promise pushed last is removed and the loop goes on.
PAllRace(r) ==
    /\ runs[r].pc = "race"
    /\ \E k \in 1..Len(runs[r].executing) :
            Settled(tasks[r][runs[r].executing[k]])
    /\ LET run == runs[r]
           p == run.index
           loop == pAllLoop(Splice(run.executing, p), p + 1, Len(tasks[r]))
       IN  /\ tasks' = [tasks EXCEPT ![r] = StartTasks(@, p + 1, loop.index)]
           /\ runs' = [runs EXCEPT ![r] =
                  [@ EXCEPT !.pc = loop.pc, !.executing = loop.executing,
                            !.index = loop.index]]
    /\ UNCHANGED <<files, mirrors, rows, delivered, gateVars>>

-----------------------------------------------------------------------------
(* processMirror(file, service): task i of run r *)

SetTask(r, i, t) == tasks' = [tasks EXCEPT ![r][i] = t]

\* first() of the lookup: the id of a matching row, 0 when there is none.
\* The query has no ORDER BY: of several matching rows, any.
FirstRow(f, service) ==
    IF RowsOf(f, service) = {} THEN {0} ELSE RowsOf(f, service)

AlreadyDoneNever(existingStatus) == FALSE

\* existingMirror?.status === 'done'
AlreadyDone(existingStatus) == existingStatus = "done"

ExceedsCapNever(size, maxFileSize) == FALSE

\* maxFileSize > 0 && file.size > maxFileSize
ExceedsCap(size, maxFileSize) == maxFileSize > 0 /\ size > maxFileSize

NeedsCreateAlways(existingId) == TRUE

\* existingMirror || (await FileMirror.create(...)): create when none was found
NeedsCreate(existingId) == existingId = 0

\* The lookup returns; then the done skip, the size cap, and the choice
\* between the row found and a row to create.
Lookup(r, i) ==
    /\ tasks[r][i].pc = "lookup"
    /\ LET t == tasks[r][i]
           f == runs[r].fileId
       IN  \E id \in FirstRow(f, t.service) :
               LET existing == IF id = 0 THEN NoRow ELSE rows[id]
               IN  SetTask(r, i,
                       [t EXCEPT
                           !.fmId = id, !.fm = existing,
                           !.existing = existing.status,
                           !.pc = IF AlreadyDone(existing.status) THEN "finished"
                                  ELSE IF ExceedsCap(runs[r].size,
                                                     getMirrorConfig(t.service))
                                       THEN "finished"
                                  ELSE IF NeedsCreate(id) THEN "create"
                                  ELSE "uploading"])
    /\ UNCHANGED <<files, mirrors, rows, runs, delivered, gateVars>>

\* FileMirror.create({ fileId, mirror, status: 'queued', attempts: 0 })
Create(r, i) ==
    /\ tasks[r][i].pc = "create"
    /\ LET t == tasks[r][i]
           created == [NoRow EXCEPT !.fileId = runs[r].fileId,
                                    !.mirror = t.service,
                                    !.status = "queued", !.attempts = 0]
       IN  /\ rows' = Append(rows, created)
           /\ SetTask(r, i, [t EXCEPT !.pc = "uploading",
                                      !.fmId = Len(rows) + 1, !.fm = created])
    /\ UNCHANGED <<files, mirrors, runs, delivered, gateVars>>

MarkUploadingKeepsCounter(r, i) ==
    /\ tasks[r][i].pc = "uploading"
    /\ LET t == tasks[r][i]
           patch == [status |-> "uploading"]
       IN  /\ rows' = Save(rows, t.fmId, t.fm, patch)
           /\ SetTask(r, i, [t EXCEPT !.pc = "call", !.attempt = 0,
                                      !.fm = Merge(t.fm, patch)])
    /\ UNCHANGED <<files, mirrors, runs, delivered, gateVars>>

\* fileMirror.merge({ status: 'uploading', attempts: attempts + 1 }).save()
MarkUploading(r, i) ==
    /\ tasks[r][i].pc = "uploading"
    /\ LET t == tasks[r][i]
           patch == [status |-> "uploading", attempts |-> t.fm.attempts + 1]
       IN  /\ rows' = Save(rows, t.fmId, t.fm, patch)
           /\ SetTask(r, i, [t EXCEPT !.pc = "call", !.attempt = 0,
                                      !.fm = Merge(t.fm, patch)])
    /\ UNCHANGED <<files, mirrors, runs, delivered, gateVars>>

OrNullAlways(v) == NULL

\* x || null
OrNull(v) == IF v \in {NULL, ""} THEN NULL ELSE v

ResultPatchIgnoresFlag(result) ==
    [status |-> "done", url |-> OrNull(result.downloadUrl),
     metadata |-> NullMeta, expiresAt |-> OrNull(result.expiresAt)]

\* handleWorkerResult's merge
ResultPatch(result) ==
    IF result.success
    THEN [status |-> "done",
          url |-> OrNull(result.downloadUrl),
          metadata |-> IF result.metadata = NULL THEN NullMeta
                       ELSE [isNull |-> FALSE, error |-> NULL,
                             rest |-> result.metadata],
          expiresAt |-> OrNull(result.expiresAt)]
    ELSE [status |-> "failed",
          metadata |-> [isNull |-> FALSE, error |-> result.error,
                        rest |-> result.metadata]]

\* handleWorkerError's merge
ErrorPatch(errorMessage) ==
    [status |-> "failed",
     metadata |-> [isNull |-> FALSE, error |-> errorMessage, rest |-> NULL]]

\* callWorker returns the worker's JSON body; handleWorkerResult saves it.
CallWorkerReturns(r, i, result) ==
    /\ tasks[r][i].pc = "call"
    /\ LET t == tasks[r][i]
           patch == ResultPatch(result)
       IN  /\ rows' = Save(rows, t.fmId, t.fm, patch)
           /\ SetTask(r, i, [t EXCEPT !.pc = "finished", !.calls = @ + 1,
                                      !.fm = Merge(t.fm, patch)])
    /\ UNCHANGED <<files, mirrors, runs, delivered, gateVars>>

LoopContinuesNever(t) == FALSE

LoopContinuesIgnoresCounter(t) == t.attempt + 1 < MAX_RETRIES

\* The catch block: the loop goes on while the row's counter is below
\* MAX_RETRIES and tries are left; else handleWorkerError saves the failure.
LoopContinues(t) ==
    /\ ~(t.fm.attempts >= MAX_RETRIES)
    /\ t.attempt + 1 < MAX_RETRIES

\* callWorker throws (non-2xx status or timeout).
CallWorkerThrows(r, i, message) ==
    /\ tasks[r][i].pc = "call"
    /\ LET t == tasks[r][i]
           patch == ErrorPatch(message)
       IN  IF LoopContinues(t)
           THEN /\ SetTask(r, i, [t EXCEPT !.pc = "retry", !.calls = @ + 1,
                                           !.attempt = @ + 1,
                                           !.lastError = message])
                /\ UNCHANGED rows
           ELSE /\ rows' = Save(rows, t.fmId, t.fm, patch)
                /\ SetTask(r, i, [t EXCEPT !.pc = "finished", !.calls = @ + 1,
                                           !.lastError = message,
                                           !.fm = Merge(t.fm, patch)])
    /\ UNCHANGED <<files, mirrors, runs, delivered, gateVars>>

RetryDelayConstant(attempt) == RETRY_BASE_DELAY_MS

\* this.RETRY_BASE_DELAY_MS * Math.pow(2, attempt - 1)
RetryDelay(attempt) == RETRY_BASE_DELAY_MS * 2 ^ (attempt - 1)

\* attempt > 0: await sleep(delay) (slept is kept for the properties: the
\* delays this call has slept, in ms).
Sleep(r, i) ==
    /\ tasks[r][i].pc = "retry"
    /\ LET t == tasks[r][i]
       IN  SetTask(r, i, [t EXCEPT !.pc = "reattempt",
                                   !.slept = Append(@, RetryDelay(t.attempt))])
    /\ UNCHANGED <<files, mirrors, rows, runs, delivered, gateVars>>

RetryKeepsCounter(r, i) ==
    /\ tasks[r][i].pc = "reattempt"
    /\ SetTask(r, i, [tasks[r][i] EXCEPT !.pc = "call"])
    /\ UNCHANGED <<files, mirrors, rows, runs, delivered, gateVars>>

\* then fileMirror.merge({ attempts: attempts + 1 }).save()
Retry(r, i) ==
    /\ tasks[r][i].pc = "reattempt"
    /\ LET t == tasks[r][i]
           patch == [attempts |-> t.fm.attempts + 1]
       IN  /\ rows' = Save(rows, t.fmId, t.fm, patch)
           /\ SetTask(r, i, [t EXCEPT !.pc = "call", !.fm = Merge(t.fm, patch)])
    /\ UNCHANGED <<files, mirrors, runs, delivered, gateVars>>

-----------------------------------------------------------------------------
(* updateFileStatus(fileId) *)

calculateFileStatusFailFirst(allDone, anyFailed, currentStatus, hasSomeDone) ==
    IF allDone THEN "completed"
    ELSE IF anyFailed THEN "failed"
    ELSE NULL

calculateFileStatusNeedsSomeDone(allDone, anyFailed, currentStatus, hasSomeDone) ==
    IF allDone /\ hasSomeDone THEN "completed"
    ELSE IF anyFailed /\ ~hasSomeDone THEN "failed"
    ELSE IF hasSomeDone /\ anyFailed THEN "completed"
    ELSE NULL

calculateFileStatusPartialUndecided(allDone, anyFailed, currentStatus, hasSomeDone) ==
    IF allDone THEN "completed"
    ELSE IF anyFailed /\ ~hasSomeDone THEN "failed"
    ELSE NULL

calculateFileStatus(allDone, anyFailed, currentStatus, hasSomeDone) ==
    IF allDone THEN "completed"
    ELSE IF anyFailed /\ ~hasSomeDone THEN "failed"
    ELSE IF hasSomeDone /\ anyFailed THEN "completed"
    ELSE NULL

\* await Promise.all(executing) resolves; the file's rows are read.
UpdateFileStatusQuery(r) ==
    /\ runs[r].pc = "all"
    /\ \A k \in 1..Len(runs[r].executing) :
            Settled(tasks[r][runs[r].executing[k]])
    /\ LET found == FileRows(runs[r].fileId)
           allDone == \A m \in found : rows[m].status = "done"
           anyFailed == \E m \in found : rows[m].status = "failed"
           hasSomeDone == \E m \in found : rows[m].status = "done"
       IN  runs' = [runs EXCEPT ![r] =
               IF ~allDone /\ ~anyFailed
               THEN [@ EXCEPT !.pc = "done", !.found = NULL]
               ELSE [@ EXCEPT !.pc = "updFind", !.found = NULL,
                              !.newStatus = calculateFileStatus(
                                  allDone, anyFailed, NULL, hasSomeDone)]]
    /\ UNCHANGED <<files, mirrors, rows, tasks, delivered, gateVars>>

\* File.find(fileId)
UpdateFileStatusFind(r) ==
    /\ runs[r].pc = "updFind"
    /\ runs' = [runs EXCEPT ![r] =
           [@ EXCEPT !.pc = "updSave", !.fileRead = files[runs[r].fileId].status]]
    /\ UNCHANGED <<files, mirrors, rows, tasks, delivered, gateVars>>

\* if (newStatus) file.merge({ status: newStatus }).save()
UpdateFileStatusSave(r) ==
    /\ runs[r].pc = "updSave"
    /\ files' = IF runs[r].newStatus # NULL
                THEN Save(files, runs[r].fileId, [status |-> runs[r].fileRead],
                          [status |-> runs[r].newStatus])
                ELSE files
    /\ runs' = [runs EXCEPT ![r] = [@ EXCEPT !.pc = "done"]]
    /\ UNCHANGED <<mirrors, rows, tasks, delivered, gateVars>>

-----------------------------------------------------------------------------
(* The job runner: a run that ends abnormally, and rescue(payload). *)

\* handle is cut short while it awaits its first save or the fan-out (the
\* database call fails, or the queue worker process dies); what the run had
\* in flight makes no further write and its locals are gone.  The runner
\* then delivers the job again or, its retries used up, calls rescue.
HandleAbort(r) ==
    /\ runs[r].pc \in {"setProcessing", "race", "all"}
    /\ runs' = [runs EXCEPT ![r] =
           [NewRun EXCEPT !.pc = "thrown", !.fileId = runs[r].fileId,
                          !.mirror = runs[r].mirror]]
    /\ tasks' = [tasks EXCEPT ![r] = <<>>]
    /\ UNCHANGED <<files, mirrors, rows, delivered, gateVars>>

\* File.find(fileId)
RescueFind(r) ==
    /\ runs[r].pc = "thrown"
    /\ runs' = [runs EXCEPT ![r] =
           IF runs[r].fileId \in DOMAIN files
           THEN [@ EXCEPT !.pc = "rescueSave",
                          !.fileRead = files[runs[r].fileId].status]
           ELSE [@ EXCEPT !.pc = "rescueUpdate"]]
    /\ UNCHANGED <<files, mirrors, rows, tasks, delivered, gateVars>>

\* file.merge({ status: 'failed' }).save()
RescueSave(r) ==
    /\ runs[r].pc = "rescueSave"
    /\ files' = Save(files, runs[r].fileId, [status |-> runs[r].fileRead],
                     [status |-> "failed"])
    /\ runs' = [runs EXCEPT ![r] = [@ EXCEPT !.pc = "rescueUpdate"]]
    /\ UNCHANGED <<mirrors, rows, tasks, delivered, gateVars>>

RescueTargetsAllOfFile(fileId) == FileRows(fileId)

\* .where('file_id', fileId).whereNot('status', 'done'): the ids.
RescueTargets(fileId) == {id \in FileRows(fileId) : rows[id].status # "done"}

\* FileMirror.query().where('file_id', fileId).whereNot('status', 'done')
\*   .update({ status: 'failed' })
RescueUpdate(r) ==
    /\ runs[r].pc = "rescueUpdate"
    /\ rows' = [id \in DOMAIN rows |->
                   IF id \in RescueTargets(runs[r].fileId)
                   THEN [rows[id] EXCEPT !.status = "failed"]
                   ELSE rows[id]]
    /\ runs' = [runs EXCEPT ![r] = [@ EXCEPT !.pc = "rescued"]]
    /\ UNCHANGED <<files, mirrors, tasks, delivered, gateVars>>

-----------------------------------------------------------------------------
(* Initial states: the database after the files were admitted (pending, no  *)
(* attempt rows), a mirrors table as the admin set it up, no job delivered. *)

\* One mirror as configured: enabled with no cap, with a cap equal to the
\* file size, with a cap below it, or disabled.
Uncapped == [enabled |-> TRUE,  maxFileSize |-> NoCap]
CapEqual == [enabled |-> TRUE,  maxFileSize |-> FileSize]
CapBelow == [enabled |-> TRUE,  maxFileSize |-> FileSize - 1]
Disabled == [enabled |-> FALSE, maxFileSize |-> NoCap]

\* The two-mirror tables of Spec.
SpecProfiles ==
    { <<Uncapped, Uncapped>>, <<CapEqual, CapBelow>>, <<CapBelow, CapBelow>>,
      <<Uncapped, Disabled>>, <<Disabled, Disabled>> }

\* The table for one choice of profiles; names are unique, priorities run
\* against the insertion order.
MirrorTable(profile) ==
    [i \in DOMAIN profile |->
        [name |-> i, enabled |-> profile[i].enabled,
         priority |-> Len(profile) - i,
         maxFileSize |-> profile[i].maxFileSize]]

InitWith(nFiles, tables, nSlots) ==
    /\ files = [f \in 1..nFiles |-> [status |-> "pending", size |-> FileSize]]
    /\ mirrors \in tables
    /\ rows = <<>>
    /\ runs = [r \in 1..nSlots |-> NewRun]
    /\ tasks = [r \in 1..nSlots |-> <<>>]
    /\ delivered = 0
    /\ objects = <<>>
    /\ credentials = <<>>
    /\ queue = <<>>
    /\ request = NoRequest
    /\ page = NoPage

MissingFile == Len(files) + 1
PayloadFileIds == DOMAIN files \cup {MissingFile}
PayloadMirrors == {NoMirror} \cup {mirrors[i].name : i \in DOMAIN mirrors}

\* One step of a processMirror call.
ProcessMirror(r, i) ==
    \/ Lookup(r, i)
    \/ Create(r, i)
    \/ MarkUploading(r, i)
    \/ \E result \in WorkerResults : CallWorkerReturns(r, i, result)
    \/ \E message \in WorkerErrors : CallWorkerThrows(r, i, message)
    \/ Sleep(r, i)
    \/ Retry(r, i)

\* One step of updateFileStatus.
UpdateFileStatus(r) ==
    \/ UpdateFileStatusQuery(r)
    \/ UpdateFileStatusFind(r)
    \/ UpdateFileStatusSave(r)

\* One step of rescue.
Rescue(r) ==
    \/ RescueFind(r)
    \/ RescueSave(r)
    \/ RescueUpdate(r)

\* A delivery within the bound of Spec.
HandleFind(r, fileId, mirror) ==
    /\ delivered < MaxRuns
    /\ HandleFindNext(r, fileId, mirror)

-----------------------------------------------------------------------------
(* Spec: job deliveries that do not overlap: one queue worker slot, so a    *)
(* delivery begins when the one before it has returned, thrown or been     *)
(* rescued.  With fewer targets than CONCURRENCY_LIMIT pAll never awaits    *)
(* Promise.race.                                                           *)

Init == InitWith(1, {MirrorTable(p) : p \in SpecProfiles}, 1)

Next ==
    \/ \E r \in RunIds, f \in PayloadFileIds, m \in PayloadMirrors :
            HandleFind(r, f, m)
    \/ \E r \in RunIds : HandleSetProcessing(r)
    \/ \E r \in RunIds : \E i \in TaskIds(r) : ProcessMirror(r, i)
    \/ \E r \in RunIds : UpdateFileStatus(r)
    \/ \E r \in RunIds : HandleAbort(r)
    \/ \E r \in RunIds : Rescue(r)

Spec == Init /\ [][Next]_vars

-----------------------------------------------------------------------------
(* Properties of Spec. *)

SamePair(a, b) == rows[a].fileId = rows[b].fileId /\ rows[a].mirror = rows[b].mirror

\* C1: job deliveries for one file that follow one another never leave two
\* MirrorAttempt rows for one (file, mirror) pair, and a processMirror call
\* is about to create a row only when no row of its pair exists.
C1_OneRowPerPair ==
    /\ \A a, b \in DOMAIN rows : SamePair(a, b) => a = b
    /\ \A r \in RunIds : \A i \in TaskIds(r) :
           tasks[r][i].pc = "create" =>
               /\ tasks[r][i].existing = NULL
               /\ RowsOf(runs[r].fileId, tasks[r][i].service) = {}

\* A later delivery went on with the row an earlier one had left not done.
C1_Witness ==
    \E r \in RunIds : \E i \in TaskIds(r) :
        /\ delivered >= 2
        /\ tasks[r][i].existing \in {"failed", "uploading", "queued"}
        /\ tasks[r][i].pc = "finished"
        /\ Cardinality(RowsOf(runs[r].fileId, tasks[r][i].service)) = 1

\* C4: a processMirror call whose lookup found its row done has returned at
\* once: it made no worker call, and the row still is as the lookup read it
\* (status, url, attempts, metadata, expiry).
C4_DoneIsSkipped ==
    \A r \in RunIds : \A i \in TaskIds(r) :
        tasks[r][i].existing = "done" =>
            /\ tasks[r][i].pc = "finished"
            /\ tasks[r][i].calls = 0
            /\ rows[tasks[r][i].fmId] = tasks[r][i].fm

\* A re-run met a done row while the file's other mirror was uploaded again.
C4_Witness ==
    \E r \in RunIds : \E i, j \in TaskIds(r) :
        /\ delivered >= 2
        /\ tasks[r][i].existing = "done"
        /\ tasks[r][j].existing = "failed" /\ tasks[r][j].calls > 0

\* C5 (as claimed): for every MirrorAttempt, url is non-null exactly when
\* status = done.
C5_UrlIffDone ==
    \A id \in DOMAIN rows : (rows[id].url # NULL) <=> (rows[id].status = "done")

\* The statuses of a file's MirrorAttempts, as a multiset.
StatusBag(f) ==
    LET ids == FileRows(f)
    IN  [s \in {rows[id].status : id \in ids} |->
            Cardinality({id \in ids : rows[id].status = s})]

\* File.status as the claim derives it from the multiset.
StatusFromBag(bag, current) ==
    IF \A s \in BagToSet(bag) : s = "done" THEN "completed"
    ELSE IF BagIn("failed", bag) /\ ~BagIn("done", bag) THEN "failed"
    ELSE IF BagIn("failed", bag) /\ BagIn("done", bag) THEN "completed"
    ELSE current

\* C8: when handle has returned, File.status is the function of the multiset
\* of the file's attempt statuses the claim gives: all done -> completed;
\* failed and no done -> failed; done and failed -> completed; else left as
\* handle set it.
C8_StatusFromMultiset ==
    \A r \in RunIds :
        runs[r].pc = "done" =>
            files[runs[r].fileId].status =
                StatusFromBag(StatusBag(runs[r].fileId), "processing")

\* One mirror succeeded and the other used up its tries: completed.
C8_Witness ==
    \E r \in RunIds : \E a, b \in FileRows(runs[r].fileId) :
        /\ runs[r].pc = "done"
        /\ rows[a].status = "done"
        /\ rows[b].status = "failed" /\ rows[b].attempts = MAX_RETRIES
        /\ rows[b].metadata.error = TimeoutError
        /\ files[runs[r].fileId].status = "completed"

-----------------------------------------------------------------------------
(* SpecConc: at-least-once delivery with two queue worker slots, so that    *)
(* two handle calls for the one file overlap; one uncapped mirror.          *)

InitConc == InitWith(1, {MirrorTable(<<Uncapped>>)}, 2)

SpecConc == InitConc /\ [][Next]_vars

\* C2 (as claimed): under every interleaving of overlapping deliveries there
\* is at most one MirrorAttempt row per (file, mirror) pair.
C2_OneRowPerPairConcurrent ==
    \A a \in DOMAIN rows : \A b \in DOMAIN rows \ {a} : ~SamePair(a, b)

\* C3 (as claimed): a MirrorAttempt that has status done is never written to
\* another status, whatever overlapping deliveries and rescue do.
C3_DoneIsNeverOverwritten ==
    [][\A id \in DOMAIN rows :
          rows[id].status = "done" => rows'[id].status = "done"]_vars

-----------------------------------------------------------------------------
(* SpecFan: one delivery, for all mirrors, over a mirrors table of          *)
(* FanMirrors rows of which the first k are enabled (k = 1..FanMirrors):    *)
(* one of them uncapped, the others capped below the file size (their       *)
(* processMirror call returns after the lookup).  The delivery returns      *)
(* normally: no abort, no rescue.                                           *)

FanProfile(k, live) ==
    [i \in 1..FanMirrors |->
        IF i = live THEN Uncapped ELSE IF i <= k THEN CapBelow ELSE Disabled]

FanProfiles ==
    {FanProfile(kl[1], kl[2]) :
        kl \in {x \in (1..FanMirrors) \X (1..FanMirrors) : x[2] <= x[1]}}

InitFan == InitWith(1, {MirrorTable(p) : p \in FanProfiles}, 1)

NextFan ==
    \/ \E r \in RunIds, f \in DOMAIN files :
            delivered = 0 /\ HandleFindNext(r, f, NoMirror)
    \/ \E r \in RunIds : HandleSetProcessing(r)
    \/ \E r \in RunIds : PAllRace(r)
    \/ \E r \in RunIds : \E i \in TaskIds(r) : ProcessMirror(r, i)
    \/ \E r \in RunIds : UpdateFileStatus(r)

SpecFan == InitFan /\ [][NextFan]_vars

InFlightCount(r) == Cardinality({i \in TaskIds(r) : InFlight(tasks[r][i])})

\* C6 (as claimed): the recomputation of File.status starts only after the
\* processMirror call of every target has finished, so from then on, and
\* when handle has returned, no call of the run is still in flight.
C6_RecomputeAfterAllFinished ==
    \A r \in RunIds :
        runs[r].pc \in {"updFind", "updSave", "done"} =>
            \A i \in TaskIds(r) : Settled(tasks[r][i])

\* C7 (as claimed): at every moment at most CONCURRENCY_LIMIT processMirror
\* calls of one run are started and not yet finished.
C7_AtMostFiveInFlight ==
    \A r \in RunIds : InFlightCount(r) <= CONCURRENCY_LIMIT

\* C9 (as claimed), for runs that all return normally and worker calls that
\* all return: once every delivery has returned and nothing is in flight any
\* more, no file that entered processing is still in processing.
C9_NoFileLeftProcessing ==
    (\A r \in RunIds :
        /\ runs[r].pc \in {"new", "done"}
        /\ \A i \in TaskIds(r) : Settled(tasks[r][i]))
    => \A f \in DOMAIN files : files[f].status # "processing"

-----------------------------------------------------------------------------
(* SpecFiles: two files and two uncapped mirrors; deliveries that do not    *)
(* overlap, each for one named mirror of one file (the re-run of a single   *)
(* mirror).                                                                *)

InitFiles == InitWith(2, {MirrorTable(<<Uncapped, Uncapped>>)}, 1)

NextFiles ==
    \/ \E r \in RunIds, f \in PayloadFileIds, m \in PayloadMirrors \ {NoMirror} :
            HandleFind(r, f, m)
    \/ \E r \in RunIds : HandleSetProcessing(r)
    \/ \E r \in RunIds : \E i \in TaskIds(r) : ProcessMirror(r, i)
    \/ \E r \in RunIds : UpdateFileStatus(r)
    \/ \E r \in RunIds : HandleAbort(r)
    \/ \E r \in RunIds : Rescue(r)

SpecFiles == InitFiles /\ [][NextFiles]_vars

\* C10: the step that ends rescue(fileId) leaves File.status failed, has set
\* to failed every MirrorAttempt of that file that was not done, and has
\* left the done attempts, the rows of other files and the other files as
\* they were.
C10_RescueEffect ==
    [][\A r \in RunIds :
          (runs[r].pc = "rescueUpdate" /\ runs'[r].pc = "rescued") =>
              LET f == runs[r].fileId
              IN  /\ f \in DOMAIN files => files'[f].status = "failed"
                  /\ \A g \in DOMAIN files \ {f} : files'[g] = files[g]
                  /\ DOMAIN rows' = DOMAIN rows
                  /\ \A id \in DOMAIN rows :
                        IF rows[id].fileId = f /\ rows[id].status # "done"
                        THEN rows'[id] = [rows[id] EXCEPT !.status = "failed"]
                        ELSE rows'[id] = rows[id]]_vars

\* rescue has run on a file with one attempt done and one cut short.
C10_Witness ==
    \E r \in RunIds : \E a, b \in FileRows(runs[r].fileId) :
        /\ runs[r].pc = "rescued"
        /\ rows[a].status = "done" /\ rows[a].url # NULL
        /\ rows[b].status = "failed" /\ rows[b].metadata.isNull
        /\ files[runs[r].fileId].status = "failed"

-----------------------------------------------------------------------------
(* SpecCap: as Spec, over mirrors tables that hold a mirror whose config    *)
(* carries a maxFileSize below the file size: enabled, or switched off by   *)
(* the admin with its config kept.                                          *)

DisabledCapBelow == [enabled |-> FALSE, maxFileSize |-> FileSize - 1]

CapProfiles == { <<Uncapped, CapBelow>>, <<Uncapped, DisabledCapBelow>> }

InitCap == InitWith(1, {MirrorTable(p) : p \in CapProfiles}, 1)

SpecCap == InitCap /\ [][Next]_vars

\* The mirrors (by name) whose configured maxFileSize is a number smaller
\* than the size of file f.
CappedBelow(f) ==
    {mirrors[i].name : i \in {j \in DOMAIN mirrors :
        /\ mirrors[j].maxFileSize # NoCap
        /\ mirrors[j].maxFileSize < files[f].size}}

\* C11 (as claimed): no MirrorAttempt row exists for a file and a mirror
\* whose configured maxFileSize is smaller than the file's size.
C11_NoRowForCappedMirror ==
    \A id \in DOMAIN rows : rows[id].mirror \notin CappedBelow(rows[id].fileId)

-----------------------------------------------------------------------------
(* The retry loop of processMirror, in Spec. *)

\* The row of task i of run r after the step.
RowAfter(r, i) == rows'[tasks[r][i].fmId]

\* C12: for a pair with no prior attempt, when the worker call that follows
\* k-1 thrown calls returns success:true with a download URL, the step ends
\* processMirror (no further worker call) with the row done, attempts = k
\* and url the returned URL, for k from 1 to MAX_RETRIES.
C12_SuccessOnTryK ==
    [][\A r \in RunIds : \A i \in TaskIds(r) : \A result \in WorkerResults :
          (/\ tasks[r][i].existing = NULL
           /\ result.success /\ result.downloadUrl # NULL
           /\ CallWorkerReturns(r, i, result))
          => LET k == tasks[r][i].calls + 1
             IN  /\ k \in 1..MAX_RETRIES
                 /\ Settled(tasks'[r][i]) /\ tasks'[r][i].calls = k
                 /\ RowAfter(r, i).status = "done"
                 /\ RowAfter(r, i).attempts = k
                 /\ RowAfter(r, i).url = result.downloadUrl]_vars

\* The worker threw on the first try and succeeded on the second.
C12_Witness ==
    \E r \in RunIds : \E i \in TaskIds(r) :
        /\ Settled(tasks[r][i]) /\ tasks[r][i].existing = NULL
        /\ tasks[r][i].calls = 2 /\ tasks[r][i].lastError # NULL
        /\ rows[tasks[r][i].fmId].status = "done"
        /\ rows[tasks[r][i].fmId].attempts = 2
        /\ rows[tasks[r][i].fmId].url = "https://x/y"

\* C13: for a pair with no prior attempt, a worker call that throws (non-2xx
\* status or timeout) is followed by another try while fewer than
\* MAX_RETRIES calls were made; the throw of call MAX_RETRIES ends
\* processMirror with the row failed, attempts = MAX_RETRIES and
\* metadata.error the last error.
C13_FailedAfterThreeCalls ==
    [][\A r \in RunIds : \A i \in TaskIds(r) : \A message \in WorkerErrors :
          (tasks[r][i].existing = NULL /\ CallWorkerThrows(r, i, message))
          => LET n == tasks[r][i].calls + 1
             IN  IF n < MAX_RETRIES
                 THEN tasks'[r][i].pc = "retry" /\ rows' = rows
                 ELSE /\ n = MAX_RETRIES
                      /\ Settled(tasks'[r][i]) /\ tasks'[r][i].calls = n
                      /\ RowAfter(r, i).status = "failed"
                      /\ RowAfter(r, i).attempts = MAX_RETRIES
                      /\ RowAfter(r, i).metadata.error = message]_vars

\* Three calls of a first attempt all threw, the last one on the timeout.
C13_Witness ==
    \E r \in RunIds : \E i \in TaskIds(r) :
        /\ Settled(tasks[r][i]) /\ tasks[r][i].existing = NULL
        /\ tasks[r][i].calls = MAX_RETRIES
        /\ tasks[r][i].lastError = TimeoutError
        /\ rows[tasks[r][i].fmId].status = "failed"
        /\ rows[tasks[r][i].fmId].attempts = MAX_RETRIES
        /\ rows[tasks[r][i].fmId].metadata.error = TimeoutError

\* C14: a worker call that returns a success:false body ends processMirror
\* (no further worker call in this run) with the row failed and the
\* worker-reported error in metadata, whatever the number of tries left.
C14_SuccessFalseIsTerminal ==
    [][\A r \in RunIds : \A i \in TaskIds(r) : \A result \in WorkerResults :
          (~result.success /\ CallWorkerReturns(r, i, result))
          => /\ Settled(tasks'[r][i])
             /\ tasks'[r][i].calls = tasks[r][i].calls + 1
             /\ RowAfter(r, i).status = "failed"
             /\ RowAfter(r, i).metadata.error = result.error]_vars

\* The first call answered success:false: failed with two tries unused.
C14_Witness ==
    \E r \in RunIds : \E i \in TaskIds(r) :
        /\ Settled(tasks[r][i]) /\ tasks[r][i].calls = 1
        /\ rows[tasks[r][i].fmId].status = "failed"
        /\ rows[tasks[r][i].fmId].attempts = 1
        /\ rows[tasks[r][i].fmId].metadata.error = "upload rejected"

-----------------------------------------------------------------------------
(* SpecFanLive: SpecFan over the tables with every mirror enabled (the      *)
(* uncapped one first or last), with the event loop running: a             *)
(* continuation that is ready (a settled promise, a returned query or       *)
(* worker call) is eventually run, so the run does not stop while a step is *)
(* enabled.                                                                 *)

InitFanLive ==
    InitWith(1, {MirrorTable(FanProfile(FanMirrors, live)) :
                    live \in {1, FanMirrors}}, 1)

SpecFanLive == InitFanLive /\ [][NextFan]_vars /\ WF_vars(NextFan)

\* C15: in one job run the processMirror call of every target is eventually
\* started, whatever the outcome of the calls for the other targets.
C15_EveryTargetIsStarted ==
    (\E r \in RunIds : runs[r].pc \in {"race", "all"})
        ~> (\A r \in RunIds :
                /\ Len(tasks[r]) = Len(getMirrorsList)
                /\ \A i \in TaskIds(r) : Started(tasks[r][i]))

\* A target beyond the first CONCURRENCY_LIMIT is started in a run in which
\* an earlier target used up its tries and failed.
C15_Witness ==
    \E r \in RunIds : \E i, j \in TaskIds(r) :
        /\ i > CONCURRENCY_LIMIT /\ Started(tasks[r][i])
        /\ j <= CONCURRENCY_LIMIT /\ Settled(tasks[r][j])
        /\ tasks[r][j].calls = MAX_RETRIES
        /\ rows[tasks[r][j].fmId].status = "failed"

-----------------------------------------------------------------------------
(* The uploads controller (UploadsController): generatePresignedUrl and    *)
(* completeUpload, with the bucket and the client that writes to it.       *)

SIZE_TOLERANCE_BYTES == 1024
maxFileSize == 104857600     \* uploadConfig.maxFileSize: 100 * 1024 * 1024
allowedMimeTypes == {"image/", "video/", "application/pdf", "application/zip"}
OctetStream == "application/octet-stream"

\* The MIME types a client declares or stores.
MimeTypes ==
    {"image/png", "IMAGE/PNG", "application/pdf", "text/plain", OctetStream}

\* String.prototype.toLowerCase on these strings.
Lower(str) ==
    CASE str = "IMAGE/PNG" -> "image/png"
      [] str = "doc.PDF" -> "doc.pdf"
      [] str = "PDF" -> "pdf"
      [] OTHER -> str

\* str.startsWith(prefix), for the MIME types above and the allow-list.
StartsWith(str, prefix) ==
    \/ str = prefix
    \/ str = "image/png" /\ prefix = "image/"
    \/ str = "IMAGE/PNG" /\ prefix = "IMAGE/"

\* !value for a string or undefined
Falsy(value) == value \in {NULL, ""}

isMimeTypeAllowedAny(mimeType) == TRUE

isMimeTypeAllowed(mimeType) ==
    LET normalized == Lower(mimeType)
    IN  \E allowed \in allowedMimeTypes : StartsWith(normalized, Lower(allowed))

\* The filenames a client sends; .xyz has no row in EXT_TO_MIME_TYPE, and
\* the last holds a newline.
Filenames ==
    {"", "photo.png", "doc.PDF", "notes.txt", "data.xyz", "README", "pho\nto.png"}

\* filename.match(/\.([a-z0-9]+)$/i)?.[1]?.toLowerCase() || 'bin'
getFileExtension(filename) ==
    CASE filename \in {"photo.png", "pho\nto.png"} -> "png"
      [] filename = "doc.PDF" -> Lower("PDF")
      [] filename = "notes.txt" -> "txt"
      [] filename = "data.xyz" -> "xyz"
      [] OTHER -> "bin"

\* /^[a-z0-9]+$/.test(ext)
isValidExtensionFormat(ext) == ext \in {"png", "pdf", "txt", "xyz", "bin"}

\* EXT_TO_MIME_TYPE, the rows for these extensions; {} for no row.
EXT_TO_MIME_TYPE(ext) ==
    CASE ext = "png" -> {"image/png"}
      [] ext = "pdf" -> {"application/pdf"}
      [] ext = "txt" -> {"text/plain"}
      [] ext = "bin" -> {OctetStream}
      [] OTHER -> {}

validateExtensionMimeTypeMatchAny(ext, mimeType) == TRUE

validateExtensionMimeTypeMatch(ext, mimeType) ==
    LET allowedTypes == EXT_TO_MIME_TYPE(Lower(ext))
        normalized == Lower(mimeType)
    IN  IF allowedTypes = {} THEN Lower(mimeType) = OctetStream
        ELSE \E type \in allowedTypes :
                normalized = type \/ StartsWith(normalized, type \o ";")

\* value.replace(/[\r\n\x00-\x1F\x7F]/g, '')
sanitizeMetadata(value) == IF value = "pho\nto.png" THEN "photo.png" ELSE value

validateFileSize(size) == size > 0 /\ ~(size > maxFileSize)

validateRequiredString(value) == ~Falsy(value)

\* mimeType || 'application/octet-stream', lower-cased
FinalMimeType(mimeType) == Lower(IF Falsy(mimeType) THEN OctetStream ELSE mimeType)

Fingerprints == {NULL, "short", "fp-0123456789"}

\* fingerprint.length < 10
TooShort(fingerprint) == fingerprint = "short"

\* validatePresignRequest(body).valid
validatePresignRequest(body) ==
    /\ validateRequiredString(body.filename)
    /\ validateFileSize(body.size)
    /\ isMimeTypeAllowed(FinalMimeType(body.mimeType))
    /\ isValidExtensionFormat(getFileExtension(body.filename))
    /\ validateExtensionMimeTypeMatch(getFileExtension(body.filename),
                                      FinalMimeType(body.mimeType))
    /\ ~(~Falsy(body.fingerprint) /\ TooShort(body.fingerprint))

\* The sizes buildS3Metadata writes and extractAndValidateMetadata parses.
\* The scenario of the specification: 1,000,000 declared, 1,100,000 stored.
ScenarioDeclared == 1000000
ScenarioStored == 1100000

DeclaredSizes == {0, 1, ScenarioDeclared, maxFileSize, maxFileSize + 1}

\* buildS3Metadata: String(size) and the other bound fields.
buildS3Metadata(filename, size, mimeType, id, fingerprint) ==
    [filename |-> filename, declaredSize |-> ToString(size),
     declaredMimetype |-> mimeType, uploadId |-> ToString(id),
     fingerprint |-> IF Falsy(fingerprint) THEN NULL ELSE fingerprint]

\* parseInt(sizeStr, 10): the number whose decimal digits the string holds,
\* NaN (nan) for a string that starts with no digit.
parseInt(sizeStr) ==
    LET hit == {n \in DeclaredSizes : ToString(n) = sizeStr}
    IN  IF hit = {} THEN [nan |-> TRUE, value |-> 0]
        ELSE [nan |-> FALSE, value |-> CHOOSE n \in hit : TRUE]

\* extractAndValidateMetadata(metadata): valid, and the approved fields.
extractAndValidateMetadata(metadata) ==
    LET size == parseInt(metadata.declaredSize)
    IN  IF \/ Falsy(metadata.filename) \/ Falsy(metadata.declaredSize)
           \/ Falsy(metadata.declaredMimetype) \/ Falsy(metadata.uploadId)
        THEN [valid |-> FALSE, error |-> "Invalid upload: metadata missing",
              filename |-> NULL, size |-> 0, mimeType |-> NULL,
              fingerprint |-> NULL]
        ELSE IF size.nan \/ size.value <= 0
        THEN [valid |-> FALSE, error |-> "Invalid approved size in metadata",
              filename |-> NULL, size |-> 0, mimeType |-> NULL,
              fingerprint |-> NULL]
        ELSE [valid |-> TRUE, error |-> NULL,
              filename |-> metadata.filename, size |-> size.value,
              mimeType |-> metadata.declaredMimetype,
              fingerprint |-> metadata.fingerprint]

isValidS3KeyPrefixOnly(key) == key.isString /\ key.prefix = "uploads/"

\* typeof key === 'string' && key.startsWith('uploads/') && !key.includes('..')
isValidS3Key(key) == key.isString /\ key.prefix = "uploads/" /\ ~key.dotdot

Abs(n) == IF n < 0 THEN -n ELSE n

-----------------------------------------------------------------------------
(* The requests and the client.  One HTTP request is served at a time, and  *)
(* the client writes to the bucket between requests.  A behaviour follows   *)
(* one upload: through a credential, or past generatePresignedUrl.          *)

MaxAdmits == 2      \* completeUpload requests explored

Idle == request.pc \in {"none", "responded"}

\* The client writes while a completeUpload request can still follow.
ClientTurn == Idle /\ request.served < MaxAdmits

\* The controller starts to serve a request (served, filesBefore and
\* queueBefore are kept for the properties: the completeUpload requests so
\* far, and the Files and jobs there were when this one began).
Serve(op, key) ==
    [NoRequest EXCEPT !.pc = "serving", !.op = op, !.key = key,
                      !.filesBefore = Len(files), !.queueBefore = Len(queue),
                      !.served = request.served + (IF op = "complete" THEN 1 ELSE 0)]

\* response.json / response.badRequest / response.internalServerError
Respond(req, status, error) ==
    [req EXCEPT !.pc = "responded", !.status = status, !.error = error]

PresignBodies ==
    [filename : Filenames, size : DeclaredSizes,
     mimeType : MimeTypes \cup {NULL}, fingerprint : Fingerprints]

\* generatePresignedUrl: validate, then bind the declared metadata to a new
\* key in a presigned PUT URL.  One credential is issued in a behaviour.
GeneratePresignedUrl(body) ==
    /\ Idle
    /\ credentials = <<>> /\ objects = <<>>
    /\ IF ~validatePresignRequest(body)
       THEN /\ request' = Respond(Serve("presign", NoKey), 400, "validation")
            /\ UNCHANGED credentials
       ELSE LET finalMimeType == FinalMimeType(body.mimeType)
                ext == getFileExtension(body.filename)
                id == Len(credentials) + 1
                key == Key("uploads/", FALSE, id, ext)
                metadata == buildS3Metadata(
                    sanitizeMetadata(body.filename), body.size, finalMimeType,
                    id, IF Falsy(body.fingerprint) THEN NULL
                        ELSE sanitizeMetadata(body.fingerprint))
            IN  /\ credentials' = Append(credentials,
                        [key |-> key, ContentType |-> finalMimeType,
                         Metadata |-> metadata,
                         declared |-> [size |-> body.size,
                                       mimeType |-> body.mimeType]])
                /\ request' = Respond(Serve("presign", key), 200, NULL)
    /\ UNCHANGED <<files, objects, queue, jobVars>>

\* The payload sizes a client stores under a credential for size S: S, and
\* the sizes at and beyond the tolerance on both sides.
StoredSizes(declaredSize) ==
    {n \in {declaredSize - SIZE_TOLERANCE_BYTES - 1,
            declaredSize - SIZE_TOLERANCE_BYTES, declaredSize,
            declaredSize + SIZE_TOLERANCE_BYTES,
            declaredSize + SIZE_TOLERANCE_BYTES + 1} : n >= 0}
        \cup (IF declaredSize = ScenarioDeclared THEN {ScenarioStored} ELSE {})

\* The Content-Type header of the PUT; NULL for none.
StoredTypes == {"image/png", "IMAGE/PNG", "application/pdf", NULL}

\* The client PUTs a payload to the presigned URL of credential c: the
\* object carries the bound metadata, the bytes and the Content-Type sent.
ClientPut(c, size, contentType) ==
    /\ ClientTurn
    /\ objects' = (credentials[c].key :>
                      [Metadata |-> credentials[c].Metadata,
                       ContentLength |-> size, ContentType |-> contentType])
                  @@ objects
    /\ UNCHANGED <<files, credentials, queue, request, jobVars>>

BypassKey == Key("uploads/", FALSE, 0, "bin")

\* Metadata of objects written past generatePresignedUrl: one required field
\* missing or empty, a size that is no positive number, or nothing at all.
BypassMetadata ==
    LET full == buildS3Metadata("photo.png", 1, "image/png", 0, NULL)
    IN  { NoMetadata,
          [full EXCEPT !.filename = ""],
          [full EXCEPT !.declaredSize = NULL],
          [full EXCEPT !.declaredMimetype = NULL],
          [full EXCEPT !.uploadId = NULL],
          [full EXCEPT !.declaredSize = "abc"],
          [full EXCEPT !.declaredSize = ToString(0)] }

\* Objects written past generatePresignedUrl with all the metadata bound by
\* hand: a type outside the allow-list declared and stored, and a size above
\* the global maximum declared and stored.
ForgedObjects ==
    { [Metadata |-> buildS3Metadata("notes.txt", 1, "text/plain", 0, NULL),
       ContentLength |-> 1, ContentType |-> "text/plain"],
      [Metadata |-> buildS3Metadata("photo.png", maxFileSize + 1, "image/png",
                                    0, NULL),
       ContentLength |-> maxFileSize + 1, ContentType |-> "image/png"] }

\* The objects written past generatePresignedUrl.
BypassObjects ==
    {[Metadata |-> metadata, ContentLength |-> 1, ContentType |-> "image/png"] :
        metadata \in BypassMetadata} \cup ForgedObjects

\* A write to the bucket that did not go through a credential.
DirectPut(object) ==
    /\ ClientTurn
    /\ credentials = <<>>
    /\ objects' = (BypassKey :> object) @@ objects
    /\ UNCHANGED <<files, credentials, queue, request, jobVars>>

-----------------------------------------------------------------------------
(* completeUpload({ key }) *)

SizeMismatchAtTolerance(actualSize, approvedSize) ==
    Abs(actualSize - approvedSize) >= SIZE_TOLERANCE_BYTES

\* Math.abs(actualSize - approved.size) > SIZE_TOLERANCE_BYTES
SizeMismatch(actualSize, approvedSize) ==
    Abs(actualSize - approvedSize) > SIZE_TOLERANCE_BYTES

MimeMismatchNever(actualMimeType, approvedMimeType) == FALSE

\* actualMimeType !== approved.mimeType
MimeMismatch(actualMimeType, approvedMimeType) ==
    actualMimeType # approvedMimeType

ExceedsMaxNever(actualSize) == FALSE

\* actualSize > uploadConfig.maxFileSize
ExceedsMax(actualSize) == actualSize > maxFileSize

ActualMimeTypeAsStored(head) ==
    IF Falsy(head.ContentType) THEN OctetStream ELSE head.ContentType

\* headResult.ContentType?.toLowerCase() || 'application/octet-stream'
ActualMimeType(head) ==
    IF Falsy(head.ContentType) THEN OctetStream ELSE Lower(head.ContentType)

MetadataRejectionNone == {}

\* The rejections after which completeUpload leaves the object alone.
MetadataRejection ==
    {"Invalid upload: metadata missing", "Invalid approved size in metadata"}

\* The checks between HeadObject and File.create, in their order: the error
\* of the first one that fails, NULL when all pass.
Rejection(head) ==
    LET approved == extractAndValidateMetadata(head.Metadata)
        actualSize == head.ContentLength
        actualMimeType == ActualMimeType(head)
    IN  IF ~approved.valid THEN approved.error
        ELSE IF SizeMismatch(actualSize, approved.size)
        THEN "File size does not match declared size"
        ELSE IF MimeMismatch(actualMimeType, approved.mimeType)
        THEN "MIME type does not match declared type"
        ELSE IF ~isMimeTypeAllowed(actualMimeType) THEN "File type not allowed"
        ELSE IF ExceedsMax(actualSize) THEN "File size exceeds maximum allowed"
        ELSE NULL

\* The keys a completeUpload request names: of a stored object, of a
\* credential, outside the prefix, with a parent segment, or none.
RequestKeys ==
    DOMAIN objects \cup {credentials[c].key : c \in DOMAIN credentials}
        \cup {NoKey, Key("tmp/", FALSE, 1, "png"), Key("uploads/", TRUE, 1, "png")}

\* const { key } = request.body(); isValidS3Key(key)
CompleteUploadBegin(key) ==
    /\ Idle
    /\ request.served < MaxAdmits
    /\ request' = IF ~isValidS3Key(key)
                  THEN Respond(Serve("complete", key), 400,
                               "Invalid or missing S3 key")
                  ELSE [Serve("complete", key) EXCEPT !.pc = "head"]
    /\ UNCHANGED <<files, objects, credentials, queue, jobVars>>

\* HeadObject returns (or answers NotFound); then the checks up to the
\* first await that follows them.
CompleteUploadHead ==
    /\ request.pc = "head"
    /\ request' =
          IF request.key \notin DOMAIN objects
          THEN Respond(request, 400, "File not found in storage")
          ELSE LET head == objects[request.key]
                   error == Rejection(head)
               IN  IF error = NULL
                   THEN [request EXCEPT !.pc = "create", !.head = head]
                   ELSE IF error \in MetadataRejection
                   THEN Respond([request EXCEPT !.head = head], 400, error)
                   ELSE [request EXCEPT !.pc = "delete", !.head = head,
                                        !.error = error]
    /\ UNCHANGED <<files, objects, credentials, queue, jobVars>>

\* HeadObject throws another error.
CompleteUploadHeadFails ==
    /\ request.pc = "head"
    /\ request' = Respond(request, 500, "Failed to fetch file metadata")
    /\ UNCHANGED <<files, objects, credentials, queue, jobVars>>

\* The bucket without the object of that key.
Without(key) == [k \in DOMAIN objects \ {key} |-> objects[k]]

\* await deleteS3Object(key), then the rejection
CompleteUploadDelete ==
    /\ request.pc = "delete"
    /\ objects' = Without(request.key)
    /\ request' = Respond([request EXCEPT !.deleteIssued = TRUE], 400,
                          request.error)
    /\ UNCHANGED <<files, credentials, queue, jobVars>>

CompleteUploadDeleteEscalates ==
    /\ request.pc = "delete"
    /\ request' = Respond([request EXCEPT !.deleteIssued = TRUE], 500,
                          "Failed to delete file")
    /\ UNCHANGED <<files, objects, credentials, queue, jobVars>>

\* deleteS3Object throws: logged, and the same rejection.
CompleteUploadDeleteFails ==
    /\ request.pc = "delete"
    /\ request' = Respond([request EXCEPT !.deleteIssued = TRUE], 400,
                          request.error)
    /\ UNCHANGED <<files, objects, credentials, queue, jobVars>>

CompleteUploadCreateOncePerKey ==
    /\ request.pc = "create"
    /\ LET approved == extractAndValidateMetadata(request.head.Metadata)
           known == {f \in DOMAIN files : files[f].path = request.key}
       IN  IF known = {}
           THEN /\ files' = Append(files,
                       [filename |-> approved.filename,
                        size |-> request.head.ContentLength,
                        status |-> "pending",
                        mimeType |-> ActualMimeType(request.head),
                        path |-> request.key,
                        fingerprint |-> approved.fingerprint])
                /\ request' = [request EXCEPT !.pc = "dispatch",
                                              !.fileId = Len(files) + 1]
           ELSE /\ files' = files
                /\ request' = [request EXCEPT !.pc = "dispatch",
                                              !.fileId = CHOOSE f \in known : TRUE]
    /\ UNCHANGED <<objects, credentials, queue, jobVars>>

\* File.create({ filename, size: actualSize, status: 'pending', ... })
CompleteUploadCreate ==
    /\ request.pc = "create"
    /\ LET approved == extractAndValidateMetadata(request.head.Metadata)
       IN  files' = Append(files,
               [filename |-> approved.filename,
                size |-> request.head.ContentLength,
                status |-> "pending",
                mimeType |-> ActualMimeType(request.head),
                path |-> request.key,
                fingerprint |-> approved.fingerprint])
    /\ request' = [request EXCEPT !.pc = "dispatch", !.fileId = Len(files) + 1]
    /\ UNCHANGED <<objects, credentials, queue, jobVars>>

\* File.create throws.
CompleteUploadCreateFails ==
    /\ request.pc = "create"
    /\ request' = Respond(request, 500, "Failed to persist file record")
    /\ UNCHANGED <<files, objects, credentials, queue, jobVars>>

\* queue.dispatch(MirrorFileJob, { fileId }), then the success response
CompleteUploadDispatch ==
    /\ request.pc = "dispatch"
    /\ queue' = Append(queue, [fileId |-> request.fileId])
    /\ request' = Respond([request EXCEPT !.dispatched = TRUE], 200, NULL)
    /\ UNCHANGED <<files, objects, credentials, jobVars>>

CompleteUploadDispatchRollsBack ==
    /\ request.pc = "dispatch"
    /\ files' = SubSeq(files, 1, Len(files) - 1)
    /\ request' = Respond([request EXCEPT !.fileId = 0], 500,
                          "Failed to queue file")
    /\ UNCHANGED <<objects, credentials, queue, jobVars>>

\* queue.dispatch throws: logged, and the success response all the same.
CompleteUploadDispatchFails ==
    /\ request.pc = "dispatch"
    /\ request' = Respond(request, 200, NULL)
    /\ UNCHANGED <<files, objects, credentials, queue, jobVars>>

-----------------------------------------------------------------------------
(* SpecGate: the uploads controller and its client, with storage, database *)
(* and queue answering every call.  SpecGateFaults: the same with calls    *)
(* that throw.                                                              *)

InitGate == InitWith(0, {MirrorTable(<<Uncapped>>)}, 1)

NextGate ==
    \/ \E body \in PresignBodies : GeneratePresignedUrl(body)
    \/ \E c \in DOMAIN credentials :
          \E size \in StoredSizes(credentials[c].declared.size) :
             \E contentType \in StoredTypes :
                ClientPut(c, size, contentType)
    \/ \E object \in BypassObjects : DirectPut(object)
    \/ \E key \in RequestKeys : CompleteUploadBegin(key)
    \/ CompleteUploadHead
    \/ CompleteUploadDelete
    \/ CompleteUploadCreate
    \/ CompleteUploadDispatch

SpecGate == InitGate /\ [][NextGate]_vars

NextGateFaults ==
    \/ NextGate
    \/ CompleteUploadHeadFails
    \/ CompleteUploadDeleteFails
    \/ CompleteUploadCreateFails
    \/ CompleteUploadDispatchFails

SpecGateFaults == InitGate /\ [][NextGateFaults]_vars

-----------------------------------------------------------------------------
(* Properties of the uploads controller. *)

\* The completeUpload request just answered read the object's head.
HeadRead ==
    /\ request.op = "complete" /\ request.pc = "responded"
    /\ request.error \notin {"Invalid or missing S3 key",
                             "File not found in storage",
                             "Failed to fetch file metadata"}

\* The request just answered was completeUpload on the key of credential c,
\* with an object stored under it.
AdmitAnswered(c) == HeadRead /\ request.key = credentials[c].key

\* The request just answered created no File and enqueued no job.
NothingPersisted ==
    /\ Len(files) = request.filesBefore /\ Len(queue) = request.queueBefore
    /\ request.fileId = 0 /\ ~request.dispatched

\* The request admitted the object: the success response and a File for it.
Admitted ==
    /\ request.status = 200
    /\ request.fileId \in DOMAIN files
    /\ files[request.fileId].path = request.key

\* MIME types are equal when they differ in letter case at most.
SameMimeType(a, b) == Lower(a) = Lower(b)

\* |S - S'| <= 1024 and M = M', for the credential c and the object read.
WithinToleranceAndSameType(c) ==
    /\ Abs(credentials[c].declared.size - request.head.ContentLength)
           <= SIZE_TOLERANCE_BYTES
    /\ SameMimeType(credentials[c].declared.mimeType, request.head.ContentType)

PassesEveryCheck(obj) ==
    /\ ~Falsy(obj.Metadata.filename) /\ ~Falsy(obj.Metadata.declaredSize)
    /\ ~Falsy(obj.Metadata.declaredMimetype) /\ ~Falsy(obj.Metadata.uploadId)
    /\ \E n \in DeclaredSizes :
          /\ ToString(n) = obj.Metadata.declaredSize /\ n > 0
          /\ Abs(obj.ContentLength - n) <= SIZE_TOLERANCE_BYTES
    /\ obj.ContentType # NULL
    /\ Lower(obj.ContentType) = obj.Metadata.declaredMimetype
    /\ \E allowed \in allowedMimeTypes : StartsWith(Lower(obj.ContentType), allowed)
    /\ obj.ContentLength <= maxFileSize

\* C17: a File record is created only by completeUpload, for a valid key
\* whose stored object passes every check, and a job is enqueued only for a
\* File just created; a completeUpload call that answers with a rejection
\* has created no File and enqueued no job.
C17_FileOnlyAfterEveryCheck ==
    [][/\ files' # files =>
            /\ request.pc = "create" /\ request'.pc = "dispatch"
            /\ isValidS3Key(request.key)
            /\ request.key \in DOMAIN objects
            /\ PassesEveryCheck(objects[request.key])
            /\ Len(files') = Len(files) + 1
            /\ files'[Len(files')].path = request.key
       /\ queue' # queue =>
            /\ request.pc = "dispatch" /\ request'.status = 200
            /\ queue' = Append(queue, [fileId |-> Len(files)])
       /\ (request.pc = "dispatch" /\ request'.pc # "dispatch") =>
            request'.status = 200
       /\ (request'.op = "complete" /\ request'.pc = "responded"
           /\ request'.status # 200) =>
            /\ files' = files /\ queue' = queue
            /\ Len(files') = request'.filesBefore
            /\ Len(queue') = request'.queueBefore]_vars

\* A second completeUpload on the key of an admitted File was rejected
\* after the client stored another payload.
C17_Witness ==
    /\ HeadRead /\ request.status = 400 /\ request.deleteIssued
    /\ request.served = 2
    /\ Len(files) = 1 /\ files[1].path = request.key
    /\ Len(queue) = 1

\* C18: when the stored size differs from the declared one by more than 1024
\* bytes, or the stored MIME type differs from the declared one,
\* completeUpload has issued the delete of the object when it rejects, and
\* has created no File.
C18_MismatchDeletesAndRejects ==
    LET approved == extractAndValidateMetadata(request.head.Metadata)
    IN  (/\ HeadRead /\ approved.valid
         /\ \/ Abs(request.head.ContentLength - approved.size)
                   > SIZE_TOLERANCE_BYTES
            \/ ActualMimeType(request.head) # approved.mimeType)
        => /\ request.status = 400 /\ request.deleteIssued
           /\ NothingPersisted

\* Declared 1,000,000 bytes, stored 1,100,000: rejected, the object deleted,
\* no File.
C18_Witness ==
    /\ HeadRead /\ request.status = 400 /\ request.deleteIssued
    /\ request.head.Metadata.declaredSize = ToString(ScenarioDeclared)
    /\ request.head.ContentLength = ScenarioStored
    /\ request.key \notin DOMAIN objects
    /\ files = <<>> /\ queue = <<>>

\* A required field of the bound metadata is missing or empty.
FieldMissing(metadata) ==
    \E field \in {"filename", "declaredSize", "declaredMimetype", "uploadId"} :
        Falsy(metadata[field])

\* C19: when the stored object lacks a required bound metadata field,
\* completeUpload rejects, issues no delete (the object is still stored) and
\* creates no File.
C19_MissingMetadataRejectsWithoutDelete ==
    (HeadRead /\ FieldMissing(request.head.Metadata))
        => /\ request.status = 400
           /\ ~request.deleteIssued
           /\ request.key \in DOMAIN objects
           /\ NothingPersisted

\* An object stored without the upload id was rejected and left in place.
C19_Witness ==
    /\ HeadRead /\ request.status = 400 /\ ~request.deleteIssued
    /\ request.head.Metadata.uploadId = NULL
    /\ ~Falsy(request.head.Metadata.filename)
    /\ request.key \in DOMAIN objects

FailsRecheck ==
    /\ HeadRead
    /\ extractAndValidateMetadata(request.head.Metadata).valid
    /\ \/ request.head.ContentLength > maxFileSize
       \/ \A allowed \in allowedMimeTypes :
             ~StartsWith(ActualMimeType(request.head), allowed)

\* C21: every File created by completeUpload has a size not above the
\* global maximum and a MIME type that starts with a prefix of the
\* allow-list, whatever the bound metadata declares; for an object that
\* fails either re-check completeUpload has issued the delete when it
\* rejects, and has created no File.
C21_RecheckOfActualValues ==
    /\ \A f \in DOMAIN files :
          /\ files[f].size <= maxFileSize
          /\ \E allowed \in allowedMimeTypes :
                StartsWith(files[f].mimeType, allowed)
    /\ FailsRecheck => /\ request.status = 400 /\ request.deleteIssued
                       /\ NothingPersisted

\* An object that declares and stores text/plain was rejected by the
\* allow-list re-check, the delete issued.
C21_Witness ==
    /\ FailsRecheck
    /\ request.head.Metadata.declaredMimetype = "text/plain"
    /\ request.head.ContentType = "text/plain"
    /\ request.error = "File type not allowed"
    /\ request.deleteIssued /\ files = <<>>

\* The completeUpload request just answered created a File and enqueued no
\* job for it: queue.dispatch threw.
EnqueueFailed ==
    /\ request.op = "complete" /\ request.pc = "responded"
    /\ Len(queue) = request.queueBefore
    /\ request.filesBefore < Len(files)

\* C22: when queue.dispatch fails after File.create, completeUpload neither
\* deletes nor changes the File: every File stays as created, the new one
\* pending, and the caller gets the success response for it.
C22_EnqueueFailureKeepsFile ==
    [][/\ Len(files') >= Len(files)
       /\ \A f \in DOMAIN files : f \in DOMAIN files' /\ files'[f] = files[f]
       /\ (request.pc = "dispatch" /\ request'.pc # "dispatch") =>
            /\ request'.pc = "responded" /\ request'.status = 200
            /\ files' = files
            /\ request'.fileId = Len(files')
            /\ files'[request'.fileId].status = "pending"
            /\ files'[request'.fileId].path = request'.key
            /\ Len(files') = request'.filesBefore + 1]_vars

\* The success response was given for a pending File with the queue empty.
C22_Witness ==
    /\ EnqueueFailed /\ ~request.dispatched
    /\ request.status = 200
    /\ queue = <<>>
    /\ files # <<>> /\ files[request.fileId].status = "pending"

\* C23: completeUpload rejects every key that does not start with uploads/
\* or that contains '..', and before any storage call: for such a key the
\* request is answered at once with the rejection, without HeadObject,
\* without a delete and without a File or a job.
C23_InvalidKeyRejectedBeforeStorage ==
    (/\ request.op = "complete"
     /\ request.key.prefix # "uploads/" \/ request.key.dotdot)
        => /\ request.pc = "responded"
           /\ request.status = 400
           /\ request.error = "Invalid or missing S3 key"
           /\ request.head = NoObject
           /\ ~request.deleteIssued
           /\ NothingPersisted

\* A key under uploads/ with a '..' segment was rejected, an object being
\* stored in the bucket.
C23_Witness ==
    /\ request.op = "complete" /\ request.pc = "responded"
    /\ request.key.prefix = "uploads/" /\ request.key.dotdot
    /\ request.status = 400
    /\ objects # <<>>

\* The conditions on which generatePresignedUrl is to reject a request, as
\* the specification lists them.
MustReject(body) ==
    LET declaredMimeType ==
            Lower(IF body.mimeType \in {NULL, ""} THEN OctetStream
                  ELSE body.mimeType)
        ext == getFileExtension(body.filename)
        known == EXT_TO_MIME_TYPE(ext)
    IN  \/ body.filename = ""
        \/ body.size <= 0 \/ body.size > maxFileSize
        \/ \A allowed \in allowedMimeTypes : ~StartsWith(declaredMimeType, allowed)
        \/ ~isValidExtensionFormat(ext)
        \/ IF known = {} THEN declaredMimeType # OctetStream
           ELSE declaredMimeType \notin known
        \/ body.fingerprint # NULL /\ Len(body.fingerprint) < 10

\* C24: generatePresignedUrl rejects, and issues no credential, exactly when
\* the filename is empty, the declared size is <= 0 or above the global
\* maximum, the declared MIME type matches no prefix of the allow-list, the
\* derived extension is not purely alphanumeric, the extension's MIME types
\* do not hold the declared one (an extension with no row being accepted for
\* application/octet-stream only), or a fingerprint shorter than 10
\* characters is supplied; otherwise it issues one credential.
C24_RejectsExactlyOnListedConditions ==
    [][(request' # request /\ request'.op = "presign") =>
          \A body \in PresignBodies :
             GeneratePresignedUrl(body) =>
                IF MustReject(body)
                THEN request'.status = 400 /\ credentials' = credentials
                ELSE /\ request'.status = 200
                     /\ Len(credentials') = Len(credentials) + 1
                     /\ credentials'[Len(credentials')].key = request'.key]_vars

\* A request was rejected without a credential, and the client had no way
\* to store an object.
C24_Witness ==
    /\ request.op = "presign" /\ request.pc = "responded"
    /\ request.status = 400 /\ request.error = "validation"
    /\ credentials = <<>> /\ objects = <<>>

\* C26: a deleteS3Object call that fails in a rejecting branch of
\* completeUpload is not escalated: whether the object was removed or not,
\* the request is answered with the rejection of the check that failed, and
\* no File is created and no job enqueued.
C26_DeleteFailureNotEscalated ==
    [][(request.pc = "delete" /\ request' # request) =>
          /\ request'.pc = "responded" /\ request'.status = 400
          /\ request'.error = Rejection(request.head)
          /\ request'.error \in {"File size does not match declared size",
                                 "MIME type does not match declared type",
                                 "File type not allowed",
                                 "File size exceeds maximum allowed"}
          /\ objects' \in {objects, Without(request.key)}
          /\ files' = files /\ queue' = queue
          /\ Len(files') = request'.filesBefore
          /\ Len(queue') = request'.queueBefore
          /\ request'.fileId = 0]_vars

\* The last request was rejected for its size, and the object it was to
\* delete is still stored.
C26_Witness ==
    /\ HeadRead /\ request.deleteIssued /\ request.served = MaxAdmits
    /\ request.status = 400
    /\ request.error = "File size does not match declared size"
    /\ request.key \in DOMAIN objects
    /\ files = <<>>

-----------------------------------------------------------------------------
(* Properties of the job, continued. *)

\* C25: when payload.fileId matches no File, handle throws to the job
\* runner and changes nothing: the run writes no File status, creates or
\* changes no file_mirrors row and starts no processMirror call.
C25_MissingFileThrowsAndChangesNothing ==
    [][\A r \in RunIds :
          (runs'[r] # runs[r] /\ runs'[r].fileId \notin DOMAIN files') =>
             /\ delivered' # delivered => runs'[r].pc = "thrown"
             /\ runs'[r].pc \in {"thrown", "rescueUpdate", "rescued"}
             /\ tasks'[r] = <<>>
             /\ files' = files /\ rows' = rows]_vars

\* A delivery for a missing File threw after an earlier run had left rows.
C25_Witness ==
    \E r \in RunIds :
        /\ runs[r].pc = "thrown" /\ runs[r].fileId = MissingFile
        /\ tasks[r] = <<>>
        /\ delivered = 2 /\ rows # <<>>

\* C27: in the retry loop of processMirror no sleep precedes the first
\* try; before try number t >= 1 (counted from 0) the call sleeps
\* 1000 * 2^(t-1) ms, 1000 before the second try and 2000 before the third;
\* and the row's attempt counter is incremented after that sleep and before
\* the worker call.
C27_BackoffBeforeRetry ==
    [][\A r \in RunIds : \A i \in TaskIds(r) \cap DOMAIN tasks'[r] :
          LET t == tasks[r][i]
              u == tasks'[r][i]
          IN  /\ u.slept \in {<<>>, <<1000>>, <<1000, 2000>>}
              /\ u.slept # t.slept =>
                    /\ t.pc = "retry" /\ t.attempt >= 1
                    /\ u.slept = Append(t.slept, 1000 * 2 ^ (t.attempt - 1))
                    /\ Len(u.slept) = t.attempt
                    /\ rows' = rows /\ u.calls = t.calls
              /\ (t.pc = "retry" /\ u # t) =>
                    u.pc = "reattempt" /\ u.slept # t.slept
              /\ (t.pc = "reattempt" /\ u # t) =>
                    /\ u.pc = "call" /\ u.slept = t.slept /\ u.calls = t.calls
                    /\ rows'[t.fmId].attempts = t.fm.attempts + 1
                    /\ u.fm.attempts = t.fm.attempts + 1
              /\ u.calls # t.calls =>
                    /\ t.pc = "call" /\ u.calls = t.calls + 1
                    /\ t.calls = t.attempt
                    /\ Len(t.slept) = t.attempt]_vars

\* The third try was made after sleeps of 1000 and 2000 ms.
C27_Witness ==
    \E r \in RunIds : \E i \in TaskIds(r) :
        /\ tasks[r][i].calls = 3
        /\ tasks[r][i].slept = <<1000, 2000>>

\* C28 (as claimed): when the configured maxFileSize of a mirror is set and
\* the file is larger, the processMirror call for that mirror returns after
\* its lookup: it has created no row, saved nothing to a row of the pair
\* and made no worker call.
C28_CappedMirrorIsSkipped ==
    \A r \in RunIds : \A i \in TaskIds(r) :
        LET t == tasks[r][i]
        IN  (/\ t.service \in CappedBelow(runs[r].fileId)
             /\ t.pc \notin {"idle", "lookup"})
            => /\ t.pc = "finished"
               /\ t.calls = 0 /\ t.slept = <<>>
               /\ t.fm = (IF t.fmId = 0 THEN NoRow ELSE rows[t.fmId])

\* C29: a handle call whose payload names one mirror processes that mirror
\* only: no step of the call changes a row of another mirror or creates
\* one, its one processMirror call is for the named mirror, and the
\* File.status it leaves is computed from all the rows of the file.
C29_SingleMirrorRun ==
    [][\A r \in RunIds :
          (/\ runs[r].mirror # NoMirror
           /\ runs[r].pc \in {"setProcessing", "race", "all", "updFind", "updSave"})
          => /\ \A id \in DOMAIN rows :
                   rows[id].mirror # runs[r].mirror => rows'[id] = rows[id]
             /\ \A id \in DOMAIN rows' \ DOMAIN rows :
                   rows'[id].mirror = runs[r].mirror
             /\ Len(tasks'[r]) <= 1
             /\ \A i \in DOMAIN tasks'[r] :
                   tasks'[r][i].service = runs[r].mirror
             /\ runs'[r].pc = "done" =>
                   files'[runs[r].fileId].status =
                       StatusFromBag(StatusBag(runs[r].fileId)', "processing")]_vars

\* A run for mirror 2 alone has returned: the failed row of mirror 1 is as
\* an earlier run left it, and the File is completed from both rows.
C29_Witness ==
    \E r \in RunIds : \E a, b \in FileRows(runs[r].fileId) :
        /\ runs[r].pc = "done" /\ runs[r].mirror = 2
        /\ rows[a].mirror = 1 /\ rows[a].status = "failed"
        /\ rows[b].mirror = 2 /\ rows[b].status = "done"
        /\ tasks[r][1].calls > 0
        /\ files[runs[r].fileId].status = "completed"

\* C30: every file_mirrors row is created with status queued and attempts
\* 0; callWorker is issued for a pair only after the save that set the
\* pair's row to uploading and its attempt counter one higher; and, the
\* deliveries not overlapping, when a handle call creates or changes a row
\* it has set File.status to processing before.
C30_OrderOfWrites ==
    [][/\ \A id \in DOMAIN rows' \ DOMAIN rows :
             rows'[id].status = "queued" /\ rows'[id].attempts = 0
       /\ \A r \in RunIds : \A i \in TaskIds(r) \cap DOMAIN tasks'[r] :
             LET t == tasks[r][i]
                 u == tasks'[r][i]
             IN  /\ (u.pc = "call" /\ t.pc # "call") =>
                       /\ t.pc \in {"uploading", "reattempt"}
                       /\ t.fmId \in DOMAIN rows
                       /\ rows'[t.fmId].status = "uploading"
                       /\ rows'[t.fmId].attempts = rows[t.fmId].attempts + 1
                 /\ u.calls # t.calls =>
                       /\ t.pc = "call"
                       /\ rows[t.fmId].status = "uploading"
                       /\ rows[t.fmId].attempts >= 1
       /\ \A r \in RunIds :
             (rows' # rows /\ runs[r].pc \notin {"rescueUpdate"}) =>
                /\ runs[r].pc \in {"race", "all"}
                /\ files[runs[r].fileId].status = "processing"
                /\ files' = files]_vars

\* The worker call of a pair is in flight: its row, created by this run, is
\* uploading with counter 1, and the File is processing.
C30_Witness ==
    \E r \in RunIds : \E i \in TaskIds(r) :
        /\ tasks[r][i].pc = "call" /\ tasks[r][i].calls = 0
        /\ tasks[r][i].existing = NULL
        /\ rows[tasks[r][i].fmId].status = "uploading"
        /\ rows[tasks[r][i].fmId].attempts = 1
        /\ files[runs[r].fileId].status = "processing"

-----------------------------------------------------------------------------
(* SpecRecompute: updateFileStatus on its own.  Two files hold attempt rows *)
(* of the same statuses and start from any File.status; slot f calls        *)
(* updateFileStatus(f), and calls it again after it returned.  No row is    *)
(* written.                                                                 *)

MaxRecomputes == 2      \* updateFileStatus calls per file
RecomputeRows == 2      \* attempt rows per file

FileStatuses == {"pending", "processing", "completed", "failed"}
RowStatuses == {"queued", "uploading", "done", "failed"}

\* The rows of files 1 and 2 for one sequence of row statuses.
TwinRows(statuses) ==
    [k \in 1..(2 * Len(statuses)) |->
        LET f == IF k <= Len(statuses) THEN 1 ELSE 2
            i == IF k <= Len(statuses) THEN k ELSE k - Len(statuses)
        IN  [NoRow EXCEPT !.fileId = f, !.mirror = i, !.status = statuses[i]]]

InitRecompute ==
    /\ \E a, b \in FileStatuses :
          files = <<[status |-> a, size |-> FileSize],
                    [status |-> b, size |-> FileSize]>>
    /\ mirrors = MirrorTable([i \in 1..RecomputeRows |-> Uncapped])
    /\ \E n \in 0..RecomputeRows : \E statuses \in [1..n -> RowStatuses] :
          rows = TwinRows(statuses)
    /\ runs = [r \in 1..2 |-> NewRun]
    /\ tasks = [r \in 1..2 |-> <<>>]
    /\ delivered = 0
    /\ objects = <<>>
    /\ credentials = <<>>
    /\ queue = <<>>
    /\ request = NoRequest
    /\ page = NoPage

\* await this.updateFileStatus(fileId) is called for file r (recomputes is
\* kept for the properties: the calls begun in the slot).
Recompute(r) ==
    /\ runs[r].pc \in {"new", "done"}
    /\ runs[r].recomputes < MaxRecomputes
    /\ runs' = [runs EXCEPT ![r] =
           [NewRun EXCEPT !.pc = "all", !.fileId = r,
                          !.recomputes = runs[r].recomputes + 1]]
    /\ UNCHANGED <<files, mirrors, rows, tasks, delivered, gateVars>>

NextRecompute ==
    \/ \E r \in RunIds : Recompute(r)
    \/ \E r \in RunIds : UpdateFileStatus(r)

SpecRecompute == InitRecompute /\ [][NextRecompute]_vars

\* updateFileStatus has returned for both files.
BothRecomputed == \A r \in RunIds : runs[r].pc = "done" /\ runs[r].recomputes >= 1

\* The rows of file f give an outcome: all are done (or there is none), or
\* one is failed.
Decisive(f) ==
    \/ \A id \in FileRows(f) : rows[id].status = "done"
    \/ \E id \in FileRows(f) : rows[id].status = "failed"

\* C31 (as claimed): the result of updateFileStatus does not depend on the
\* File.status it starts from: for two files with rows of the same statuses
\* it leaves the same File.status.
C31_ResultIndependentOfStart ==
    BothRecomputed => files[1].status = files[2].status

\* C31 (amended): a second updateFileStatus call on unchanged rows writes
\* nothing; when all the rows are done or one is failed the result is the
\* same from every File.status; and when neither holds updateFileStatus
\* leaves the File.status it found.
C31_IdempotentAndDecisive ==
    [][/\ \A r \in RunIds :
             runs[r].recomputes >= 2 =>
                files'[runs[r].fileId] = files[runs[r].fileId]
       /\ \A f \in DOMAIN files : ~Decisive(f) => files'[f] = files[f]
       /\ (BothRecomputed' /\ Decisive(1)) =>
            /\ files'[1].status = files'[2].status
            /\ files'[1].status =
                   StatusFromBag(StatusBag(1), "processing")]_vars

\* Both files were recomputed twice over a done row and a failed row, from
\* pending and from failed: both completed.
C31_Witness ==
    /\ \A r \in RunIds : runs[r].pc = "done" /\ runs[r].recomputes = 2
    /\ {rows[id].status : id \in FileRows(1)} = {"done", "failed"}
    /\ files[1].status = "completed" /\ files[2].status = "completed"

-----------------------------------------------------------------------------
(* The downloads controller: the read side.  SpecRead: one file, one       *)
(* mirror, deliveries that do not overlap and a worker that can set an      *)
(* expiry; status and redirectToMirror requests arrive at any moment, and   *)
(* `request` holds the response given last.                                 *)

\* The expiry the worker sets, an ISO timestamp, and the instants a request
\* is served at: before it, at it, after it.
ExpiryIso == "2025-01-02T00:00:00.000Z"
Clock == {1, 2, 3}

\* DateTime.fromISO(str): the instant, on the scale of Clock.
fromISO(iso) == IF iso = ExpiryIso THEN 2 ELSE 0

ExpiringResults ==
    { [success |-> TRUE, downloadUrl |-> "https://x/y", error |-> NULL,
       metadata |-> NULL, expiresAt |-> ExpiryIso],
      [success |-> TRUE, downloadUrl |-> NULL, error |-> NULL,
       metadata |-> NULL, expiresAt |-> ExpiryIso] }

isExpiredNever(expiresAt, now) == FALSE

\* mirror.expiresAt && mirror.expiresAt < DateTime.utc()
isExpired(expiresAt, now) == expiresAt # NULL /\ fromISO(expiresAt) < now

\* FileMirror.query().where('file_id', fileId).orderBy('created_at', 'asc')
RowsByCreation(fileId) ==
    SelectSeq([id \in 1..Len(rows) |-> id], LAMBDA id : rows[id].fileId = fileId)

\* The MirrorData of a row.
MirrorData(id, now) ==
    [id |-> id, name |-> rows[id].mirror,
     status |-> IF isExpired(rows[id].expiresAt, now) THEN "expired"
                ELSE rows[id].status,
     expiresAt |-> rows[id].expiresAt]

\* A response of the downloads controller.
ReadResponse(op, fileId, mirrorId, now, status) ==
    [pc |-> "responded", op |-> op, fileId |-> fileId, mirrorId |-> mirrorId,
     now |-> now, status |-> status, message |-> NULL, fileStatus |-> NULL,
     mirrors |-> <<>>, mirrorUrl |-> NULL]

\* The fetches of the download page with fetch `poll` moved to `stage`.
Answered(poll, stage, status, fileStatus, shown) ==
    {IF fetch.n = poll
     THEN [fetch EXCEPT !.stage = stage, !.status = status,
                        !.fileStatus = fileStatus, !.mirrors = shown]
     ELSE fetch : fetch \in page.fetches}

\* DownloadsController.status: File.query().where('id', fileId).first().
\* poll is the fetch of the download page that is served, 0 for a request
\* from elsewhere (kept in request).
StatusFile(fileId, now, poll) ==
    /\ IF poll = 0
       THEN /\ request.pc # "file"
            /\ request' =
                  IF fileId \notin DOMAIN files
                  THEN [ReadResponse("status", fileId, 0, now, 404)
                           EXCEPT !.message = "File not found"]
                  ELSE [ReadResponse("status", fileId, 0, now, 200)
                           EXCEPT !.pc = "file",
                                  !.fileStatus = files[fileId].status]
            /\ UNCHANGED page
       ELSE /\ \E fetch \in page.fetches : fetch.n = poll /\ fetch.stage = "sent"
            /\ page' = [page EXCEPT !.fetches =
                  IF fileId \notin DOMAIN files
                  THEN Answered(poll, "answered", 404, NULL, <<>>)
                  ELSE Answered(poll, "file", 200, files[fileId].status, <<>>)]
            /\ UNCHANGED request
    /\ UNCHANGED <<files, objects, credentials, queue,
                   mirrors, rows, runs, tasks, delivered>>

\* then FileMirror.query()...orderBy('created_at', 'asc'), and the response
StatusMirrors(fileId, now, poll) ==
    /\ LET fileMirrors == RowsByCreation(fileId)
           shown == [k \in DOMAIN fileMirrors |-> MirrorData(fileMirrors[k], now)]
       IN  IF poll = 0
           THEN /\ request.pc = "file"
                /\ request.fileId = fileId /\ request.now = now
                /\ request' = [request EXCEPT !.pc = "responded",
                                              !.mirrors = shown]
                /\ UNCHANGED page
           ELSE /\ \E fetch \in page.fetches :
                      /\ fetch.n = poll /\ fetch.stage = "file"
                      /\ page' = [page EXCEPT !.fetches =
                            Answered(poll, "answered", 200, fetch.fileStatus, shown)]
                /\ UNCHANGED request
    /\ UNCHANGED <<files, objects, credentials, queue,
                   mirrors, rows, runs, tasks, delivered>>

\* DownloadsController.redirectToMirror: the page rendered, mirror_download
\* with the mirror's URL or an error page.
RedirectToMirror(fileId, mirrorId, now) ==
    /\ request.pc # "file"
    /\ request' =
          LET answer == ReadResponse("redirect", fileId, mirrorId, now, 200)
          IN  IF fileId \notin DOMAIN files
              THEN [answer EXCEPT !.message = "File not found"]
              ELSE IF mirrorId \notin FileRows(fileId)
              THEN [answer EXCEPT !.message = "Mirror not found"]
              ELSE IF rows[mirrorId].status # "done" \/ Falsy(rows[mirrorId].url)
              THEN [answer EXCEPT !.message = "Mirror not available"]
              ELSE IF isExpired(rows[mirrorId].expiresAt, now)
              THEN [answer EXCEPT !.message = "Mirror link has expired"]
              ELSE [answer EXCEPT !.mirrorUrl = rows[mirrorId].url]
    /\ UNCHANGED <<files, objects, credentials, queue, jobVars>>

InitRead == InitWith(1, {MirrorTable(<<Uncapped>>)}, 1)

NextRead ==
    \/ \E r \in RunIds, f \in DOMAIN files : HandleFind(r, f, NoMirror)
    \/ \E r \in RunIds : HandleSetProcessing(r)
    \/ \E r \in RunIds : \E i \in TaskIds(r) :
          \/ Lookup(r, i)
          \/ Create(r, i)
          \/ MarkUploading(r, i)
          \/ \E result \in WorkerResults \cup ExpiringResults :
                CallWorkerReturns(r, i, result)
          \/ \E message \in WorkerErrors : CallWorkerThrows(r, i, message)
          \/ Sleep(r, i)
          \/ Retry(r, i)
    \/ \E r \in RunIds : UpdateFileStatus(r)
    \/ \E f \in PayloadFileIds, now \in Clock : StatusFile(f, now, 0)
    \/ \E f \in PayloadFileIds, now \in Clock : StatusMirrors(f, now, 0)
    \/ \E f \in PayloadFileIds, id \in 1..(Len(rows) + 1), now \in Clock :
          RedirectToMirror(f, id, now)

SpecRead == InitRead /\ [][NextRead]_vars

\* The expiry of a row lies before the instant.
InThePast(row, now) == row.expiresAt # NULL /\ fromISO(row.expiresAt) < now

\* C32: a status response reports a mirror as expired whenever the row's
\* expiresAt is before the instant of the request, and with the stored
\* status otherwise, and the request leaves files and rows as they are;
\* redirectToMirror renders a mirror URL only for a row of that file whose
\* stored status is done, whose url is non-null and whose expiresAt is not
\* in the past.
C32_ReadSide ==
    [][request' # request =>
          /\ rows' = rows /\ files' = files
          /\ request'.op = "status" =>
                \A k \in DOMAIN request'.mirrors :
                   LET shown == request'.mirrors[k]
                       row == rows[shown.id]
                   IN  /\ row.fileId = request'.fileId
                       /\ shown.status = IF InThePast(row, request'.now)
                                         THEN "expired" ELSE row.status
          /\ (request'.op = "status" /\ request'.pc = "responded"
              /\ request'.status = 200) =>
                {request'.mirrors[k].id : k \in DOMAIN request'.mirrors}
                    = FileRows(request'.fileId)
          /\ (request'.op = "redirect" /\ request'.mirrorUrl # NULL) =>
                /\ request'.mirrorId \in DOMAIN rows
                /\ rows[request'.mirrorId].fileId = request'.fileId
                /\ rows[request'.mirrorId].status = "done"
                /\ rows[request'.mirrorId].url # NULL
                /\ request'.mirrorUrl = rows[request'.mirrorId].url
                /\ ~InThePast(rows[request'.mirrorId], request'.now)]_vars

\* A done row was reported as expired after its expiry, its stored status
\* still done.
C32_Witness ==
    /\ request.op = "status" /\ request.status = 200
    /\ request.now = 3
    /\ \E k \in DOMAIN request.mirrors :
          /\ request.mirrors[k].status = "expired"
          /\ rows[request.mirrors[k].id].status = "done"
          /\ rows[request.mirrors[k].id].expiresAt = ExpiryIso

-----------------------------------------------------------------------------
(* The download page (inertia/pages/download.tsx): the state of the React   *)
(* component, its polling effect and the fetches it has in flight.          *)
(* SpecPage: the job and the status endpoint of SpecRead, and one download  *)
(* page that is opened, polls, and is closed.  sent, cleanups and stale are *)
(* kept for the properties: the polls started, the clean-ups of the effect  *)
(* and the responses dropped as outdated so far.  The render and the effect *)
(* that follow setFile are taken in the step that resolves the response.    *)

MaxPolls == 2       \* polls after which the interval is not followed further

shouldPoll(fileStatus, shown) ==
    \/ fileStatus \in {"pending", "processing"}
    \/ \E k \in DOMAIN shown : shown[k].status \in {"queued", "uploading"}

isCurrentAlways(currentRequest, requestRef) == TRUE

\* if (currentRequest !== requestRef.current) return
isCurrent(currentRequest, requestRef) == currentRequest = requestRef

\* poll() up to its fetch: const currentRequest = ++requestRef.current
StartPoll(pg) ==
    [pg EXCEPT !.requestRef = @ + 1, !.sent = @ + 1,
               !.fetches = @ \cup
                   {[n |-> pg.requestRef + 1, stage |-> "sent",
                     seq |-> pg.sent + 1, cleanupsAt |-> pg.cleanups,
                     status |-> 0, fileStatus |-> NULL, mirrors |-> <<>>]}]

\* The body of the effect: nothing when shouldPoll is false, else poll()
\* and setInterval(poll, POLL_INTERVAL_MS).
RunEffect(pg) ==
    IF ~shouldPoll(pg.fileStatus, pg.mirrors) THEN [pg EXCEPT !.interval = FALSE]
    ELSE StartPoll([pg EXCEPT !.interval = TRUE])

\* The function the effect returned, when it returned one:
\* clearInterval(intervalId); ++requestRef.current
Cleanup(pg) ==
    IF pg.interval
    THEN [pg EXCEPT !.interval = FALSE, !.requestRef = @ + 1,
                    !.cleanups = @ + 1]
    ELSE pg

\* DownloadsController.show renders the page with the file and its mirrors,
\* and the component mounts: useState(initialFile), useState(initialMirrors)
\* and the effect.
Show(fileId, now) ==
    /\ page = NoPage
    /\ fileId \in DOMAIN files
    /\ LET fileMirrors == RowsByCreation(fileId)
           shown == [k \in DOMAIN fileMirrors |-> MirrorData(fileMirrors[k], now)]
       IN  page' = RunEffect([NoPage EXCEPT !.mounted = TRUE,
                                            !.fileId = fileId,
                                            !.fileStatus = files[fileId].status,
                                            !.mirrors = shown])
    /\ UNCHANGED <<files, objects, credentials, queue, request,
                   mirrors, rows, runs, tasks, delivered>>

\* The interval fires: poll()
Tick ==
    /\ page.mounted /\ page.interval
    /\ page.sent < MaxPolls
    /\ page' = StartPoll(page)
    /\ UNCHANGED <<files, objects, credentials, queue, request,
                   mirrors, rows, runs, tasks, delivered>>

\* await fetch / await response.json() resolve in poll(): the checks, then
\* setFile and setMirrors; the render that follows cleans up and runs the
\* effect again when file.status changed.
Resolve(fetch) ==
    /\ fetch \in page.fetches /\ fetch.stage = "answered"
    /\ LET rest == [page EXCEPT !.fetches = @ \ {fetch}]
           set == [rest EXCEPT !.fileStatus = fetch.fileStatus,
                               !.mirrors = fetch.mirrors]
       IN  page' = IF fetch.status # 200 THEN rest
                   ELSE IF ~isCurrent(fetch.n, page.requestRef)
                   THEN [rest EXCEPT !.stale = @ + 1]
                   ELSE IF fetch.fileStatus # page.fileStatus
                   THEN RunEffect(Cleanup(set))
                   ELSE set
    /\ UNCHANGED <<files, objects, credentials, queue, request,
                   mirrors, rows, runs, tasks, delivered>>

\* The component unmounts: the clean-up of the effect runs and the state of
\* the component is gone with it, so the responses still under way have
\* nothing left to update and are followed no further.  The page can be
\* opened again.
Unmount ==
    /\ page.mounted
    /\ page' = NoPage
    /\ UNCHANGED <<files, objects, credentials, queue, request,
                   mirrors, rows, runs, tasks, delivered>>

\* The worker answers of SpecPage: one upload that succeeds and one that the
\* provider rejects (no thrown call, so no retry).
PageResults ==
    { result \in WorkerResults : result.success => result.downloadUrl # NULL }

InitPage == InitWith(1, {MirrorTable(<<Uncapped>>)}, 1)

NextPage ==
    \/ \E r \in RunIds, f \in DOMAIN files : HandleFind(r, f, NoMirror)
    \/ \E r \in RunIds : HandleSetProcessing(r)
    \/ \E r \in RunIds : \E i \in TaskIds(r) :
          \/ Lookup(r, i)
          \/ Create(r, i)
          \/ MarkUploading(r, i)
          \/ \E result \in PageResults : CallWorkerReturns(r, i, result)
    \/ \E r \in RunIds : UpdateFileStatus(r)
    \/ \E f \in DOMAIN files : Show(f, 1)
    \/ Tick
    \/ \E fetch \in page.fetches : StatusFile(page.fileId, 1, fetch.n)
    \/ \E fetch \in page.fetches : StatusMirrors(page.fileId, 1, fetch.n)
    \/ \E fetch \in page.fetches : Resolve(fetch)
    \/ Unmount

SpecPage == InitPage /\ [][NextPage]_vars

\* C33 (as claimed): the page polls only while the file status it shows is
\* pending or processing or a mirror it shows is queued or uploading, and
\* it has stopped polling when the file status it shows is completed or
\* failed.
PollsOnlyWhilePending ==
    page.interval => shouldPoll(page.fileStatus, page.mirrors)

StopsWhenFileSettled ==
    page.fileStatus \in {"completed", "failed"} => ~page.interval

C33_PollsOnlyWhileInProgress ==
    PollsOnlyWhilePending /\ StopsWhenFileSettled

\* The file and the mirrors the page displays.
Displayed == <<page.fileStatus, page.mirrors>>

\* C34: a poll response is applied to the displayed file and mirrors only
\* if no later poll was started and the effect was not cleaned up since
\* its request began; the display changes in no other way while the page
\* is open.
C34_OnlyLatestResponseApplied ==
    [][(page.mounted /\ page'.mounted /\ Displayed' # Displayed) =>
          \E fetch \in page.fetches \ page'.fetches :
              /\ fetch.stage = "answered" /\ fetch.status = 200
              /\ fetch.seq = page.sent
              /\ fetch.cleanupsAt = page.cleanups
              /\ Displayed' = <<fetch.fileStatus, fetch.mirrors>>]_vars

\* An open page has dropped an outdated response after a clean-up of its
\* effect, and displays what a later response brought.
C34_Witness ==
    /\ page.mounted /\ page.stale > 0 /\ page.cleanups > 0
    /\ page.fileStatus = "completed"

-----------------------------------------------------------------------------
(* Properties of the job, continued (Spec). *)

\* C35: when a run of the job ends its recomputation and the file has no
\* MirrorAttempt row at all (no mirror is enabled, or every target is
\* excluded by its cap), File.status is completed.
C35_NoRowsMeansCompleted ==
    [][\A r \in RunIds :
          (/\ runs[r].pc \in {"all", "updFind", "updSave"}
           /\ runs'[r].pc = "done"
           /\ FileRows(runs[r].fileId) = {})
          => /\ runs[r].pc = "updSave"
             /\ files'[runs[r].fileId].status = "completed"]_vars

\* A run over a table without an enabled mirror has ended: no row, and the
\* file completed.
C35_Witness ==
    \E r \in RunIds :
        /\ runs[r].pc = "done" /\ rows = <<>>
        /\ \A i \in DOMAIN mirrors : ~mirrors[i].enabled
        /\ files[runs[r].fileId].status = "completed"

\* The worker call of task i in slot r comes back, one way or the other.
CallWorkerEnds(r, i) ==
    \/ \E result \in WorkerResults : CallWorkerReturns(r, i, result)
    \/ \E message \in WorkerErrors : CallWorkerThrows(r, i, message)

\* C36: a thrown worker call is the last of its processMirror call as soon
\* as the row's attempt counter is MAX_RETRIES or more, and the row is then
\* failed; no processMirror call makes more than MAX_RETRIES worker calls;
\* and a call that found a row not done whose counter was 2 or more (so 3 or
\* more once marked uploading) ends with its first worker call.
C36_LoopStopsAtThreeAttempts ==
    [][\A r \in RunIds :
          /\ \A i \in DOMAIN tasks'[r] : tasks'[r][i].calls <= MAX_RETRIES
          /\ \A i \in TaskIds(r) :
                /\ \A message \in WorkerErrors :
                      (/\ CallWorkerThrows(r, i, message)
                       /\ rows[tasks[r][i].fmId].attempts >= MAX_RETRIES)
                      => /\ Settled(tasks'[r][i])
                         /\ RowAfter(r, i).status = "failed"
                /\ (/\ CallWorkerEnds(r, i)
                     /\ tasks[r][i].existing \notin {NULL, "done"}
                     /\ tasks[r][i].calls = 0
                     /\ rows[tasks[r][i].fmId].attempts - 1 >= 2)
                    => /\ Settled(tasks'[r][i])
                       /\ tasks'[r][i].calls = 1]_vars

\* A run found the row failed with two attempts counted; its one worker
\* call threw and the row is failed again, with three.
C36_Witness ==
    \E r \in RunIds : \E i \in TaskIds(r) :
        /\ Settled(tasks[r][i]) /\ tasks[r][i].existing = "failed"
        /\ tasks[r][i].calls = 1 /\ tasks[r][i].lastError = TimeoutError
        /\ rows[tasks[r][i].fmId].status = "failed"
        /\ rows[tasks[r][i].fmId].attempts = MAX_RETRIES

-----------------------------------------------------------------------------
(* Properties of the uploads controller, continued (SpecGate). *)

\* The File records whose path is key, among the first n.
FilesOfKey(key, n) ==
    {f \in 1..n : f \in DOMAIN files' /\ files'[f].path = key}

-----------------------------------------------------------------------------
(* Properties of the job, continued (Spec). *)

\* C38: File.status never becomes pending again: every change of it by
\* handle, the recomputation or rescue is to processing, completed or
\* failed; and handle leaves the file processing when it has saved its
\* merge, also when it found the file completed or failed.
C38_NeverPendingAgain ==
    [][/\ \A f \in DOMAIN files :
             files'[f].status # files[f].status
             => files'[f].status \in {"processing", "completed", "failed"}
       /\ \A r \in RunIds :
             (runs[r].pc = "setProcessing" /\ runs'[r].pc \notin
                                                 {"setProcessing", "thrown"})
             => files'[runs[r].fileId].status = "processing"]_vars

\* A second run found the file completed and has set it to processing.
C38_Witness ==
    \E r \in RunIds :
        /\ runs[r].found = "completed" /\ runs[r].pc \in {"race", "all"}
        /\ files[runs[r].fileId].status = "processing"

\* The worker-call tries that begin in this step on row id: the tasks whose
\* save has resolved and whose callWorker is now under way.
TriesBegun(id) ==
    {ri \in {<<r, i>> : r \in RunIds, i \in 1..Len(mirrors)} :
        /\ ri[2] \in DOMAIN tasks'[ri[1]]
        /\ tasks'[ri[1]][ri[2]].pc = "call"
        /\ ~(ri[2] \in DOMAIN tasks[ri[1]] /\ tasks[ri[1]][ri[2]].pc = "call")
        /\ tasks'[ri[1]][ri[2]].fmId = id}

\* C39: with one run at a time (Spec has one queue worker slot), the
\* attempt counter of a row never decreases and counts the worker-call tries
\* begun for its file and mirror over all runs: a row is created with 0,
\* every step adds to the counter the tries it begins on the row, and a try
\* is begun only on the row of the run's file and the task's mirror.
C39_CounterCountsTries ==
    [][/\ \A id \in DOMAIN rows :
             /\ id \in DOMAIN rows'
             /\ rows'[id].attempts >= rows[id].attempts
             /\ rows'[id].attempts =
                    rows[id].attempts + Cardinality(TriesBegun(id))
       /\ \A id \in DOMAIN rows' \ DOMAIN rows :
             rows'[id].attempts = 0 /\ TriesBegun(id) = {}
       /\ \A r \in RunIds : \A i \in DOMAIN tasks'[r] :
             tasks'[r][i].pc = "call"
             => LET id == tasks'[r][i].fmId
                IN  /\ id \in DOMAIN rows'
                    /\ rows'[id].fileId = runs'[r].fileId
                    /\ rows'[id].mirror = tasks'[r][i].service]_vars

\* Three tries of a first run threw and the first try of a second run
\* succeeded: the counter stands at four.
C39_Witness ==
    \E id \in DOMAIN rows :
        /\ delivered = 2
        /\ rows[id].status = "done" /\ rows[id].attempts = MAX_RETRIES + 1

====
